---- MODULE Spec2Model ----
(***************************************************************************)
(* Model of the asynchronous thumbnail computation and caching engine of   *)
(* nionswift: ThumbnailDataItemProcessor (src/nion/swift/Thumbnails.py).   *)
(*                                                                         *)
(* Threads execute the methods of one processor statement by statement:    *)
(* every read or write of a field shared between threads is one step, so   *)
(* the unsynchronised accesses of the code (the in-memory shadow of the    *)
(* cache is written by mark_data_dirty and __initialize_cache without any  *)
(* lock) interleave in the model as the interpreter can interleave them.   *)
(* Statements protected by one lock and touching nothing else are one      *)
(* step.                                                                   *)
(*                                                                         *)
(* Time is a discrete clock; one tick is a quarter of a second, so the     *)
(* throttle interval of 0.5 s is two ticks.                                *)
(***************************************************************************)
EXTENDS Integers, Sequences, FiniteSets, TLC

\* ------------------------------------------------------------------ bounds
\* operations the caller threads may start in one behaviour
MaxOps == 2
\* versions of the display data (0 is "no data")
MaxData == 1
\* last clock value at which the clock may advance freely
MaxTime == 3

\* ------------------------------------------------------------- constants
\* minimum_time = 0.5 s, in clock ticks of 0.25 s
minimum_time == 2

Callers == {"c1", "c2"}
Workers == {"w1"}
Threads == Callers \cup Workers
NoThread == "nobody"

\* values held by the cache: None, the default thumbnail, or the thumbnail
\* calculated from version v of the display data (version 0: a thumbnail
\* persisted by an earlier session)
NoValue == <<"None", 0>>
Zeros == <<"zeros", 0>>
Thumb(v) == <<"thumb", v>>

\* the three states of __cached_value_dirty
DirtyNone == "None"
DirtyTrue == "True"
DirtyFalse == "False"

\* an absent cache entry: no value, and it reads as dirty
AbsentEntry == [present |-> FALSE, value |-> NoValue, dirty |-> TRUE]

VARIABLES
    cache,                \* the entry of display._display_cache for "thumbnail_data"
    cached_value,         \* self.__cached_value
    cached_value_dirty,   \* self.__cached_value_dirty
    cached_value_time,    \* self.__cached_value_time
    is_recomputing,       \* self.__is_recomputing
    recompute_lock,       \* owner of self.__recompute_lock
    display_data,         \* version of display.display_data, 0 for None
    default_data,         \* what get_default_data returns
    now,                  \* time.time()
    conf,                 \* the scenario: who calls what, and what the hooks may do
    pending,              \* tasks handed to the dispatcher and not yet started
    pc,                   \* per thread: the statement it executes next
    stack,                \* per thread: return labels of the calls in progress
    dispatch,             \* per thread: the dispatch argument of recompute_if_necessary
    local_is_recomputing, \* per thread: local "is_recomputing" of recompute_if_necessary
    tmp,                  \* per thread: value read from the cache in __initialize_cache
    data,                 \* per thread: local "data" of recompute_data
    calculated_data,      \* per thread: local "calculated_data" of recompute_data
    current_time,         \* per thread: local "current_time" of recompute
    wake,                 \* per thread: end of the time.sleep of recompute
    exc,                  \* per thread: the exception being propagated
    outcome,              \* per thread: how its last call or task ended
    ret,                  \* per thread: value returned by its last get_cached_data
    ops,                  \* operations started so far
    op,                   \* per thread: the operation it runs, or ran last
    calc_count,           \* executions of get_calculated_data so far
    calc_raised,          \* per thread: get_calculated_data raised in its current call
    calc_end,             \* per thread: when its get_calculated_data returned
    last_completion,      \* time of the last completed computation, 0 if none
    mark_calc,            \* per caller: the computation running when mark_data_dirty began
    dirtied_calc,         \* the computation during which a whole mark_data_dirty ran
    dv,                   \* one DisplayValues instance: its fields
    dv_lock,              \* owner of its __lock
    dv_pc,                \* per thread: position in a property read or in finalize
    dv_field,             \* per thread: the property it reads
    dv_test,              \* per thread: the dirty flag as it tested it
    dv_out,               \* per thread: what its last read returned, or that it raised
    dv_obs,               \* per property: the values its readers were returned
    dv_reads,             \* reads and finalize calls started so far
    finalize_calls,       \* invocations of the on_finalize callback
    disp,                 \* one Display: its snapshot slots and master flag
    disp_op,              \* the last operation on the display
    disp_arg,             \* its argument: immediate (0 or 1), or the snapshot finalized
    disp_ret,             \* what the last get_calculated_display_values returned
    mgr,                  \* the ThumbnailManager and the sources it created
    mgr_op,               \* the last operation on the manager
    mgr_ret,              \* the source the last acquisition returned
    mgr_arg,              \* the uuid and the context of the last acquisition
    dprop,                \* the Display's data descriptor and index properties
    dprop_op,             \* the last operation on them
    dprop_arg,            \* the value it was given
    snap,                 \* what each snapshot of the Display was built from
    notify,               \* the operation on the Display under way: steps left, event being fired
    on_thumbnail_updated, \* whether the processor's hook is set
    fires,                \* notifications fired by the recompute_data run of each thread
    item_cache,           \* DataItemProcessor: the item's cache entry for the property
    item_data,            \* version of data_ref.data, 0 for None
    in_progress,          \* self.__in_progress
    shared_task,          \* the task given to add_shared_task: where it is, its completion_fn
    get_data_calls,       \* the get_data calls made: what each found and returned
    completed,            \* per get_data call: the values its completion_fn was invoked with
    indexes,              \* GraphicSelection: self.__indexes
    anchor_index,         \* self.__anchor_index
    sel_op,               \* the last operation on the selection, or that it raised
    gcv_pc,               \* per thread: position in get_calculated_display_values
    gcv_out,              \* per thread: the snapshot its last call returned (0: None), or that it raised
    with_on_finalize      \* the snapshots of the Display whose on_finalize is set

shared == <<cache, cached_value, cached_value_dirty, cached_value_time,
            is_recomputing, recompute_lock>>
env == <<display_data, default_data, now, conf>>
locals == <<dispatch, local_is_recomputing, tmp, data, calculated_data,
            current_time, wake>>
ghosts == <<calc_count, calc_raised, calc_end, last_completion, mark_calc,
            dirtied_calc>>
procvars == <<cache, cached_value, cached_value_dirty, cached_value_time,
          is_recomputing, recompute_lock, display_data, default_data, now,
          conf, pending, pc, stack, dispatch, local_is_recomputing, tmp, data,
          calculated_data, current_time, wake, exc, outcome, ret, ops, op,
          calc_count, calc_raised, calc_end, last_completion, mark_calc,
          dirtied_calc>>

\* the state of the other components: one DisplayValues snapshot, one
\* Display, the ThumbnailManager
dvvars == <<dv, dv_lock, dv_pc, dv_field, dv_test, dv_out, dv_obs, dv_reads,
            finalize_calls>>
dispvars == <<disp, disp_op, disp_arg, disp_ret>>
mgrvars == <<mgr, mgr_op, mgr_ret, mgr_arg>>
propvars == <<dprop, dprop_op, dprop_arg, snap, notify>>
notevars == <<on_thumbnail_updated, fires>>
dipvars == <<item_cache, item_data, in_progress, shared_task, get_data_calls, completed>>
selvars == <<indexes, anchor_index, sel_op>>
gcvvars == <<gcv_pc, gcv_out, with_on_finalize>>
others == <<dvvars, dispvars, mgrvars, propvars, notevars, dipvars, selvars, gcvvars>>

vars == <<procvars, others>>

ctl == <<pc, stack, outcome>>

\* ------------------------------------------- ThumbnailSource: the relay
\* ThumbnailSource.__init__ sets the processor's on_thumbnail_updated hook to
\* a closure that fires thumbnail_updated_event; no run has fired anything
NoFires == [processor |-> 0, event |-> 0]

NoteNew ==
    /\ on_thumbnail_updated = TRUE
    /\ fires = [t \in Threads |-> NoFires]

\* --------------------------------------------------------------- the cache
\* display._display_cache (Cache.ShadowCache): set stores the value and
\* clears the dirty bit, an absent key reads as dirty and as None.
CacheSetDirty(c) == IF c.present THEN [c EXCEPT !.dirty = TRUE] ELSE c

CacheSet(c, v) == [present |-> TRUE, value |-> v, dirty |-> FALSE]

CacheRemove(c) == AbsentEntry

CacheIsDirty(c) == c.dirty

CacheGet(c) == c.value

\* ------------------------------------------------------- control helpers
Goto(t, l) ==
    /\ pc' = [pc EXCEPT ![t] = l]
    /\ UNCHANGED <<stack, outcome>>

Call(t, l, rets) ==
    /\ pc' = [pc EXCEPT ![t] = l]
    /\ stack' = [stack EXCEPT ![t] = rets \o @]
    /\ UNCHANGED outcome

\* a caller thread enters an operation of the processor
Begin(t, l, rets) ==
    /\ pc' = [pc EXCEPT ![t] = l]
    /\ stack' = [stack EXCEPT ![t] = rets]
    /\ outcome' = [outcome EXCEPT ![t] = "none"]

\* return from the method in progress; the outermost method returns to the
\* thread's caller (the test or UI thread, or the dispatcher)
Return(t) ==
    IF stack[t] = <<>>
    THEN /\ pc' = [pc EXCEPT ![t] = "idle"]
         /\ outcome' = [outcome EXCEPT ![t] = "returned"]
         /\ UNCHANGED stack
    ELSE /\ pc' = [pc EXCEPT ![t] = Head(stack[t])]
         /\ stack' = [stack EXCEPT ![t] = Tail(@)]
         /\ UNCHANGED outcome

HasHandler(t) == \E i \in 1..Len(stack[t]) : stack[t][i] = "rc_finally"

HandlerAt(t) == CHOOSE i \in 1..Len(stack[t]) : stack[t][i] = "rc_finally"

\* an exception e propagates up the calls in progress: to the try/finally of
\* recompute if the thread runs a task, else out of the outermost method
Raise(t, e) ==
    IF HasHandler(t)
    THEN /\ pc' = [pc EXCEPT ![t] = "rc_finally"]
         /\ stack' = [stack EXCEPT ![t] = SubSeq(@, HandlerAt(t) + 1, Len(@))]
         /\ exc' = [exc EXCEPT ![t] = e]
         /\ UNCHANGED outcome
    ELSE /\ pc' = [pc EXCEPT ![t] = "idle"]
         /\ stack' = [stack EXCEPT ![t] = <<>>]
         /\ outcome' = [outcome EXCEPT ![t] = "raised"]
         /\ UNCHANGED exc

\* the thread runs the recompute closure of recompute_if_necessary
InTask(t) ==
    \/ pc[t] \in {"rc_time", "rc_sleep_arg", "rc_sleep", "rc_finally"}
    \/ HasHandler(t)

\* tasks dispatched and not yet finished
InFlight == pending + Cardinality({t \in Threads : InTask(t)})

Computing == {t \in Threads : pc[t] = "rd_calc"}

\* a caller may start another operation
CanStart(t, name) ==
    /\ t \in conf.callers
    /\ name \in conf.ops
    /\ pc[t] = "idle"
    /\ ops < conf.max_ops

StartOp(t, name) ==
    /\ ops' = ops + 1
    /\ op' = [op EXCEPT ![t] = name]
    /\ ret' = [ret EXCEPT ![t] = NoValue]
    /\ calc_raised' = [calc_raised EXCEPT ![t] = FALSE]

\* ------------------------------------------------------ __initialize_cache
IcTest(t) ==
    /\ pc[t] = "ic_test"
    /\ IF cached_value_dirty = DirtyNone
       THEN Goto(t, "ic_load_dirty")
       ELSE Return(t)
    /\ UNCHANGED <<shared, env, locals, ghosts, pending, exc, ret, ops, op>>
    /\ UNCHANGED others

IcLoadDirty(t) ==
    /\ pc[t] = "ic_load_dirty"
    /\ tmp' = [tmp EXCEPT ![t] = IF CacheIsDirty(cache) THEN DirtyTrue ELSE DirtyFalse]
    /\ Goto(t, "ic_store_dirty")
    /\ UNCHANGED <<shared, env, ghosts, pending, exc, ret, ops, op,
                   dispatch, local_is_recomputing, data, calculated_data,
                   current_time, wake>>
    /\ UNCHANGED others

IcStoreDirty(t) ==
    /\ pc[t] = "ic_store_dirty"
    /\ cached_value_dirty' = tmp[t]
    /\ Goto(t, "ic_load_value")
    /\ UNCHANGED <<cache, cached_value, cached_value_time, is_recomputing,
                   recompute_lock, env, locals, ghosts, pending, exc, ret, ops, op>>
    /\ UNCHANGED others

IcLoadValue(t) ==
    /\ pc[t] = "ic_load_value"
    /\ tmp' = [tmp EXCEPT ![t] = CacheGet(cache)]
    /\ Goto(t, "ic_store_value")
    /\ UNCHANGED <<shared, env, ghosts, pending, exc, ret, ops, op,
                   dispatch, local_is_recomputing, data, calculated_data,
                   current_time, wake>>
    /\ UNCHANGED others

IcStoreValue(t) ==
    /\ pc[t] = "ic_store_value"
    /\ cached_value' = tmp[t]
    /\ tmp' = [tmp EXCEPT ![t] = NoValue]
    /\ Return(t)
    /\ UNCHANGED <<cache, cached_value_dirty, cached_value_time, is_recomputing,
                   recompute_lock, env, ghosts, pending, exc, ret, ops, op,
                   dispatch, local_is_recomputing, data, calculated_data,
                   current_time, wake>>
    /\ UNCHANGED others

\* --------------------------------------------------------- mark_data_dirty
MddSetDirty(t) ==
    /\ CanStart(t, "mark_data_dirty")
    /\ StartOp(t, "mark_data_dirty")
    /\ cache' = CacheSetDirty(cache)
    /\ mark_calc' = [mark_calc EXCEPT ![t] = IF Computing # {} THEN calc_count ELSE 0]
    /\ Begin(t, "ic_test", <<"mdd_assign">>)
    /\ UNCHANGED <<cached_value, cached_value_dirty, cached_value_time,
                   is_recomputing, recompute_lock, env, locals, pending, exc,
                   calc_count, calc_end, last_completion, dirtied_calc>>
    /\ UNCHANGED others

\* faulty variant: the shadow is marked clean
MddAssign_Clean(t) ==
    /\ pc[t] = "mdd_assign"
    /\ cached_value_dirty' = DirtyFalse
    /\ mark_calc' = [mark_calc EXCEPT ![t] = 0]
    /\ Return(t)
    /\ UNCHANGED <<cache, cached_value, cached_value_time, is_recomputing,
                   recompute_lock, env, locals, pending, exc, ret, ops, op,
                   calc_count, calc_raised, calc_end, last_completion,
                   dirtied_calc>>
    /\ UNCHANGED others

MddAssign(t) ==
    /\ pc[t] = "mdd_assign"
    /\ cached_value_dirty' = DirtyTrue
    /\ dirtied_calc' = IF mark_calc[t] # 0 /\ mark_calc[t] = calc_count /\ Computing # {}
                       THEN calc_count ELSE dirtied_calc
    /\ mark_calc' = [mark_calc EXCEPT ![t] = 0]
    /\ Return(t)
    /\ UNCHANGED <<cache, cached_value, cached_value_time, is_recomputing,
                   recompute_lock, env, locals, pending, exc, ret, ops, op,
                   calc_count, calc_raised, calc_end, last_completion>>
    /\ UNCHANGED others

\* -------------------------------------------------- recompute_if_necessary
RinCall(t, d) ==
    /\ CanStart(t, "recompute_if_necessary")
    /\ d \in conf.dispatchers
    /\ StartOp(t, "recompute_if_necessary")
    /\ dispatch' = [dispatch EXCEPT ![t] = d]
    /\ local_is_recomputing' = [local_is_recomputing EXCEPT ![t] = FALSE]
    /\ Begin(t, "ic_test", <<"rin_test">>)
    /\ UNCHANGED <<shared, env, pending, exc, tmp, data, calculated_data,
                   current_time, wake, calc_count, calc_end, last_completion,
                   mark_calc, dirtied_calc>>
    /\ UNCHANGED others

RinTest(t) ==
    /\ pc[t] = "rin_test"
    /\ IF cached_value_dirty = DirtyTrue
       THEN Goto(t, "rin_lock")
       ELSE Return(t)
    /\ UNCHANGED <<shared, env, locals, ghosts, pending, exc, ret, ops, op>>
    /\ UNCHANGED others

\* faulty variant: the flag is read and never set
RinLock_NoSet(t) ==
    /\ pc[t] = "rin_lock"
    /\ local_is_recomputing' = [local_is_recomputing EXCEPT ![t] = is_recomputing]
    /\ Goto(t, "rin_dispatch")
    /\ UNCHANGED <<shared, env, ghosts, pending, exc, ret, ops, op,
                   dispatch, tmp, data, calculated_data, current_time, wake>>
    /\ UNCHANGED others

\* with self.__is_recomputing_lock: read the flag and set it
RinLock(t) ==
    /\ pc[t] = "rin_lock"
    /\ local_is_recomputing' = [local_is_recomputing EXCEPT ![t] = is_recomputing]
    /\ is_recomputing' = TRUE
    /\ Goto(t, "rin_dispatch")
    /\ UNCHANGED <<cache, cached_value, cached_value_dirty, cached_value_time,
                   recompute_lock, env, ghosts, pending, exc, ret, ops, op,
                   dispatch, tmp, data, calculated_data, current_time, wake>>
    /\ UNCHANGED others

\* a dispatcher that is not callable is skipped; the "sync" dispatcher runs
\* the task in the calling thread, the "async" one on a worker thread
RinDispatch(t) ==
    /\ pc[t] = "rin_dispatch"
    /\ IF local_is_recomputing[t] \/ dispatch[t] = "none"
       THEN Return(t) /\ UNCHANGED pending
       ELSE IF dispatch[t] = "async"
            THEN Return(t) /\ pending' = pending + 1
            ELSE Goto(t, "rc_time") /\ UNCHANGED pending
    /\ UNCHANGED <<shared, env, locals, ghosts, exc, ret, ops, op>>
    /\ UNCHANGED others

\* the dispatcher starts a dispatched task on a worker thread
WorkerStart(t) ==
    /\ t \in Workers
    /\ pc[t] = "idle"
    /\ pending > 0
    /\ pending' = pending - 1
    /\ calc_raised' = [calc_raised EXCEPT ![t] = FALSE]
    /\ pc' = [pc EXCEPT ![t] = "rc_time"]
    /\ outcome' = [outcome EXCEPT ![t] = "none"]
    /\ op' = [op EXCEPT ![t] = "task"]
    /\ UNCHANGED <<shared, env, locals, stack, exc, ret, ops, calc_count,
                   calc_end, last_completion, mark_calc, dirtied_calc>>
    /\ UNCHANGED others

\* ------------------------------------ recompute_if_necessary.recompute
\* faulty variant: the throttle delay is spent inside the recompute lock
RcTime_LockedSleep(t) ==
    /\ pc[t] = "rc_time"
    /\ current_time' = [current_time EXCEPT ![t] = now]
    /\ IF now < cached_value_time + minimum_time
       THEN /\ recompute_lock = NoThread
            /\ recompute_lock' = t
            /\ Goto(t, "rc_sleep_arg")
       ELSE /\ Call(t, "ic_test", <<"rd_acquire", "rc_finally">>)
            /\ UNCHANGED recompute_lock
    /\ UNCHANGED <<cache, cached_value, cached_value_dirty, cached_value_time,
                   is_recomputing, env, ghosts, pending, exc, ret, ops, op,
                   dispatch, local_is_recomputing, tmp, data, calculated_data, wake>>
    /\ UNCHANGED others

RcTime(t) ==
    /\ pc[t] = "rc_time"
    /\ current_time' = [current_time EXCEPT ![t] = now]
    /\ IF now < cached_value_time + minimum_time
       THEN Goto(t, "rc_sleep_arg")
       ELSE Call(t, "ic_test", <<"rd_acquire", "rc_finally">>)
    /\ UNCHANGED <<shared, env, ghosts, pending, exc, ret, ops, op,
                   dispatch, local_is_recomputing, tmp, data, calculated_data, wake>>
    /\ UNCHANGED others

RcSleepArg(t) ==
    /\ pc[t] = "rc_sleep_arg"
    /\ LET d == cached_value_time + minimum_time - current_time[t] IN
       IF d < 0
       THEN /\ pc' = [pc EXCEPT ![t] = "rc_finally"]
            /\ exc' = [exc EXCEPT ![t] = "sleep"]
            /\ UNCHANGED <<stack, outcome, wake>>
       ELSE /\ wake' = [wake EXCEPT ![t] = now + d]
            /\ Goto(t, "rc_sleep")
            /\ UNCHANGED exc
    /\ current_time' = [current_time EXCEPT ![t] = 0]
    /\ UNCHANGED <<shared, env, ghosts, pending, ret, ops, op,
                   dispatch, local_is_recomputing, tmp, data, calculated_data>>
    /\ UNCHANGED others

RcSleep(t) ==
    /\ pc[t] = "rc_sleep"
    /\ now >= wake[t]
    /\ wake' = [wake EXCEPT ![t] = 0]
    /\ Call(t, "ic_test", <<"rd_acquire", "rc_finally">>)
    /\ UNCHANGED <<shared, env, ghosts, pending, exc, ret, ops, op,
                   dispatch, local_is_recomputing, tmp, data, calculated_data,
                   current_time>>
    /\ UNCHANGED others

\* faulty variant: the flag is cleared after recompute_data, not in a finally clause
RcFinally_NoFinally(t) ==
    /\ pc[t] = "rc_finally"
    /\ is_recomputing' = (IF exc[t] = "none" THEN FALSE ELSE is_recomputing)
    /\ pc' = [pc EXCEPT ![t] = "idle"]
    /\ outcome' = [outcome EXCEPT ![t] = IF exc[t] = "none" THEN "returned" ELSE "raised"]
    /\ exc' = [exc EXCEPT ![t] = "none"]
    /\ current_time' = [current_time EXCEPT ![t] = 0]
    /\ UNCHANGED <<cache, cached_value, cached_value_dirty, cached_value_time,
                   recompute_lock, env, ghosts, pending, stack, ret, ops, op,
                   dispatch, local_is_recomputing, tmp, data, calculated_data, wake>>
    /\ UNCHANGED others

\* faulty variant: the task catches the exception and returns normally
RcFinally_Swallow(t) ==
    /\ pc[t] = "rc_finally"
    /\ is_recomputing' = FALSE
    /\ pc' = [pc EXCEPT ![t] = "idle"]
    /\ outcome' = [outcome EXCEPT ![t] = "returned"]
    /\ exc' = [exc EXCEPT ![t] = "none"]
    /\ current_time' = [current_time EXCEPT ![t] = 0]
    /\ UNCHANGED <<cache, cached_value, cached_value_dirty, cached_value_time,
                   recompute_lock, env, ghosts, pending, stack, ret, ops, op,
                   dispatch, local_is_recomputing, tmp, data, calculated_data, wake>>
    /\ UNCHANGED others

\* the finally clause of recompute: the flag is cleared, then the task
\* returns, or the exception goes on to whoever ran the task
RcFinally(t) ==
    /\ pc[t] = "rc_finally"
    /\ is_recomputing' = FALSE
    /\ pc' = [pc EXCEPT ![t] = "idle"]
    /\ outcome' = [outcome EXCEPT ![t] = IF exc[t] = "none" THEN "returned" ELSE "raised"]
    /\ exc' = [exc EXCEPT ![t] = "none"]
    /\ current_time' = [current_time EXCEPT ![t] = 0]
    /\ UNCHANGED <<cache, cached_value, cached_value_dirty, cached_value_time,
                   recompute_lock, env, ghosts, pending, stack, ret, ops, op,
                   dispatch, local_is_recomputing, tmp, data, calculated_data, wake>>
    /\ UNCHANGED others

\* ---------------------------------------------------------- recompute_data
RdAcquire(t) ==
    /\ pc[t] = "rd_acquire"
    /\ recompute_lock = NoThread
    /\ recompute_lock' = t
    /\ Goto(t, "rd_test")
    /\ UNCHANGED <<cache, cached_value, cached_value_dirty, cached_value_time,
                   is_recomputing, env, locals, ghosts, pending, exc, ret, ops, op>>
    /\ UNCHANGED others

RdTest(t) ==
    /\ pc[t] = "rd_test"
    /\ IF cached_value_dirty = DirtyTrue
       THEN Goto(t, "rd_read_data") /\ UNCHANGED recompute_lock
       ELSE Return(t) /\ recompute_lock' = NoThread
    /\ UNCHANGED <<cache, cached_value, cached_value_dirty, cached_value_time,
                   is_recomputing, env, locals, ghosts, pending, exc, ret, ops, op>>
    /\ UNCHANGED others

RdReadData(t) ==
    /\ pc[t] = "rd_read_data"
    /\ data' = [data EXCEPT ![t] = display_data]
    /\ IF display_data # 0
       THEN /\ calc_count' = calc_count + 1
            /\ Goto(t, "rd_calc")
            /\ UNCHANGED calculated_data
       ELSE /\ calculated_data' = [calculated_data EXCEPT ![t] = NoValue]
            /\ Goto(t, "rd_default")
            /\ UNCHANGED calc_count
    /\ UNCHANGED <<shared, env, pending, exc, ret, ops, op, dispatch,
                   local_is_recomputing, tmp, current_time, wake, calc_raised,
                   calc_end, last_completion, mark_calc, dirtied_calc>>
    /\ UNCHANGED others

\* get_calculated_data returns the thumbnail of the data, or None, or raises
RdCalc(t) ==
    /\ pc[t] = "rd_calc"
    /\ \/ /\ \E r \in {Thumb(data[t]), NoValue} \cap conf.results :
                calculated_data' = [calculated_data EXCEPT ![t] = r]
          /\ calc_end' = [calc_end EXCEPT ![t] = now]
          /\ Goto(t, "rd_set_cache")
          /\ UNCHANGED <<recompute_lock, exc, calc_raised, data>>
       \/ /\ conf.raises
          /\ recompute_lock' = NoThread
          /\ calc_raised' = [calc_raised EXCEPT ![t] = TRUE]
          /\ data' = [data EXCEPT ![t] = 0]
          /\ Raise(t, "calc")
          /\ UNCHANGED <<calculated_data, calc_end>>
    /\ UNCHANGED <<cache, cached_value, cached_value_dirty, cached_value_time,
                   is_recomputing, env, pending, ret, ops, op, dispatch,
                   local_is_recomputing, tmp, current_time, wake, calc_count,
                   last_completion, mark_calc, dirtied_calc>>
    /\ UNCHANGED others

RdSetCache(t) ==
    /\ pc[t] = "rd_set_cache"
    /\ cache' = CacheSet(cache, calculated_data[t])
    /\ Goto(t, "rd_set_value")
    /\ UNCHANGED <<cached_value, cached_value_dirty, cached_value_time,
                   is_recomputing, recompute_lock, env, locals, ghosts, pending,
                   exc, ret, ops, op>>
    /\ UNCHANGED others

RdSetValue(t) ==
    /\ pc[t] = "rd_set_value"
    /\ cached_value' = calculated_data[t]
    /\ Goto(t, "rd_set_dirty")
    /\ UNCHANGED <<cache, cached_value_dirty, cached_value_time,
                   is_recomputing, recompute_lock, env, locals, ghosts, pending,
                   exc, ret, ops, op>>
    /\ UNCHANGED others

\* faulty variant: the shadow dirty flag is not cleared
RdSetDirty_Skip(t) ==
    /\ pc[t] = "rd_set_dirty"
    /\ Goto(t, "rd_set_time")
    /\ UNCHANGED <<shared, env, locals, ghosts, pending, exc, ret, ops, op>>
    /\ UNCHANGED others

RdSetDirty(t) ==
    /\ pc[t] = "rd_set_dirty"
    /\ cached_value_dirty' = DirtyFalse
    /\ Goto(t, "rd_set_time")
    /\ UNCHANGED <<cache, cached_value, cached_value_time,
                   is_recomputing, recompute_lock, env, locals, ghosts, pending,
                   exc, ret, ops, op>>
    /\ UNCHANGED others

RdSetTime(t) ==
    /\ pc[t] = "rd_set_time"
    /\ cached_value_time' = now
    /\ last_completion' = now
    /\ IF calculated_data[t] = NoValue
       THEN Goto(t, "rd_default")
       ELSE Goto(t, "rd_release")
    /\ UNCHANGED <<cache, cached_value, cached_value_dirty,
                   is_recomputing, recompute_lock, env, locals, pending,
                   exc, ret, ops, op, calc_count, calc_raised, calc_end, mark_calc,
                   dirtied_calc>>
    /\ UNCHANGED others

\* faulty variant: the default is fetched and not stored
RdDefault_NotStored(t) ==
    /\ pc[t] = "rd_default"
    /\ calculated_data' = [calculated_data EXCEPT ![t] = default_data]
    /\ IF default_data # NoValue
       THEN Goto(t, "rd_release")
       ELSE Goto(t, "rd_remove")
    /\ UNCHANGED <<shared, env, ghosts, pending, exc, ret, ops, op, dispatch,
                   local_is_recomputing, tmp, data, current_time, wake>>
    /\ UNCHANGED others

\* calculated_data is None: fall back to get_default_data(), which is
\* stored by the same four statements as a calculated value
RdDefault(t) ==
    /\ pc[t] = "rd_default"
    /\ calculated_data' = [calculated_data EXCEPT ![t] = default_data]
    /\ IF default_data # NoValue
       THEN Goto(t, "rd_set_cache")
       ELSE Goto(t, "rd_remove")
    /\ UNCHANGED <<shared, env, ghosts, pending, exc, ret, ops, op, dispatch,
                   local_is_recomputing, tmp, data, current_time, wake>>
    /\ UNCHANGED others

RdRemove(t) ==
    /\ pc[t] = "rd_remove"
    /\ cache' = CacheRemove(cache)
    /\ Goto(t, "rd_clear_value")
    /\ UNCHANGED <<cached_value, cached_value_dirty, cached_value_time,
                   is_recomputing, recompute_lock, env, locals, ghosts, pending,
                   exc, ret, ops, op>>
    /\ UNCHANGED others

RdClearValue(t) ==
    /\ pc[t] = "rd_clear_value"
    /\ cached_value' = NoValue
    /\ Goto(t, "rd_clear_dirty")
    /\ UNCHANGED <<cache, cached_value_dirty, cached_value_time,
                   is_recomputing, recompute_lock, env, locals, ghosts, pending,
                   exc, ret, ops, op>>
    /\ UNCHANGED others

\* faulty variant: the shadow is marked clean instead of uninitialized
RdClearDirty_False(t) ==
    /\ pc[t] = "rd_clear_dirty"
    /\ cached_value_dirty' = DirtyFalse
    /\ Goto(t, "rd_clear_time")
    /\ UNCHANGED <<cache, cached_value, cached_value_time,
                   is_recomputing, recompute_lock, env, locals, ghosts, pending,
                   exc, ret, ops, op>>
    /\ UNCHANGED others

RdClearDirty(t) ==
    /\ pc[t] = "rd_clear_dirty"
    /\ cached_value_dirty' = DirtyNone
    /\ Goto(t, "rd_clear_time")
    /\ UNCHANGED <<cache, cached_value, cached_value_time,
                   is_recomputing, recompute_lock, env, locals, ghosts, pending,
                   exc, ret, ops, op>>
    /\ UNCHANGED others

RdClearTime(t) ==
    /\ pc[t] = "rd_clear_time"
    /\ cached_value_time' = 0
    /\ Goto(t, "rd_release")
    /\ UNCHANGED <<cache, cached_value, cached_value_dirty,
                   is_recomputing, recompute_lock, env, locals, ghosts, pending,
                   exc, ret, ops, op>>
    /\ UNCHANGED others

RdRelease(t) ==
    /\ pc[t] = "rd_release"
    /\ recompute_lock' = NoThread
    /\ Goto(t, "rd_notify")
    /\ UNCHANGED <<cache, cached_value, cached_value_dirty, cached_value_time,
                   is_recomputing, env, locals, ghosts, pending, exc, ret, ops, op>>
    /\ UNCHANGED others

\* faulty variant: the hook of the ThumbnailSource is not called
RdNotify_NoRelay(t) ==
    /\ pc[t] = "rd_notify"
    /\ fires' = [fires EXCEPT ![t].processor = @ + 1]
    /\ Goto(t, "rd_reacquire")
    /\ UNCHANGED <<shared, env, locals, ghosts, pending, exc, ret, ops, op>>
    /\ UNCHANGED <<dvvars, dispvars, mgrvars, propvars, on_thumbnail_updated,
                   dipvars, selvars, gcvvars>>

\* processor_data_updated and on_thumbnail_updated run without the lock; the
\* hook, when callable, fires the thumbnail_updated_event of the source
RdNotify(t) ==
    /\ pc[t] = "rd_notify"
    /\ fires' = [fires EXCEPT ![t].processor = @ + 1,
                              ![t].event = IF on_thumbnail_updated THEN @ + 1 ELSE @]
    /\ Goto(t, "rd_reacquire")
    /\ UNCHANGED <<shared, env, locals, ghosts, pending, exc, ret, ops, op>>
    /\ UNCHANGED <<dvvars, dispvars, mgrvars, propvars, on_thumbnail_updated,
                   dipvars, selvars, gcvvars>>

\* the lock is taken again and released by the end of the with statement
RdReacquire(t) ==
    /\ pc[t] = "rd_reacquire"
    /\ recompute_lock = NoThread
    /\ data' = [data EXCEPT ![t] = 0]
    /\ calculated_data' = [calculated_data EXCEPT ![t] = NoValue]
    /\ calc_end' = [calc_end EXCEPT ![t] = 0]
    /\ Return(t)
    /\ fires' = [fires EXCEPT ![t] = NoFires]
    /\ UNCHANGED <<shared, env, pending, exc, ret, ops, op, dispatch,
                   local_is_recomputing, tmp, current_time, wake, calc_count,
                   calc_raised, last_completion, mark_calc, dirtied_calc>>
    /\ UNCHANGED <<dvvars, dispvars, mgrvars, propvars, on_thumbnail_updated,
                   dipvars, selvars, gcvvars>>

\* ------------------------------------------- get_data and get_cached_data
GetDataCall(t) ==
    /\ CanStart(t, "get_data")
    /\ StartOp(t, "get_data")
    /\ Begin(t, "ic_test", <<"rd_acquire", "ic_test", "gcd_read">>)
    /\ UNCHANGED <<shared, env, locals, pending, exc, calc_count, calc_end,
                   last_completion, mark_calc, dirtied_calc>>
    /\ UNCHANGED others

GetCachedDataCall(t) ==
    /\ CanStart(t, "get_cached_data")
    /\ StartOp(t, "get_cached_data")
    /\ Begin(t, "ic_test", <<"gcd_read">>)
    /\ UNCHANGED <<shared, env, locals, pending, exc, calc_count, calc_end,
                   last_completion, mark_calc, dirtied_calc>>
    /\ UNCHANGED others

GcdRead(t) ==
    /\ pc[t] = "gcd_read"
    /\ ret' = [ret EXCEPT ![t] = IF cached_value # NoValue THEN cached_value ELSE default_data]
    /\ Return(t)
    /\ UNCHANGED <<shared, env, locals, ghosts, pending, exc, ops, op>>
    /\ UNCHANGED others

\* ------------------------------------------------------- the environment
Tick ==
    /\ \/ now < conf.max_time
       \/ \E t \in Threads : pc[t] = "rc_sleep" /\ wake[t] > now
    /\ now' = now + 1
    /\ UNCHANGED <<shared, display_data, default_data, conf, locals, ghosts,
                   pending, ctl, exc, ret, ops, op>>
    /\ UNCHANGED others

\* the display receives new data
UpdateData ==
    /\ display_data < MaxData
    /\ display_data' = display_data + 1
    /\ UNCHANGED <<shared, default_data, now, conf, locals, ghosts, pending,
                   ctl, exc, ret, ops, op>>
    /\ UNCHANGED others

\* ----------------------------------------------------------- DisplayValues
\* One snapshot (src/nion/swift/model/Display.py).  An optional value is a
\* tuple of length 0 (None) or 1; a number is a finite integer, NaN or an
\* infinity.
MaxLen == 2
\* size of the random sample of data_sample (200 in the source, scaled down)
SampleSize == 20
\* property reads and finalize calls in one behaviour
MaxReads == 3

None == <<>>
Some(x) == <<x>>

Num(n) == <<"num", n>>
NaN == <<"nan", 0>>
Inf == <<"inf", 0>>
Numbers == {Num(1), Num(3), NaN, Inf}

isnan(v) == v[1] = "nan"
isinf(v) == v[1] = "inf"

\* the order of numpy.sort: finite numbers, then infinity, then NaN
Rank(v) == IF v[1] = "num" THEN v[2] ELSE IF isinf(v) THEN 1000 ELSE 1001

Elems(a) == {a[i] : i \in 1..Len(a)}

\* numpy.amin and numpy.amax: NaN if any element is NaN
amin(a) ==
    IF \E v \in Elems(a) : isnan(v) THEN NaN
    ELSE CHOOSE v \in Elems(a) : \A w \in Elems(a) : Rank(v) <= Rank(w)

amax(a) ==
    IF \E v \in Elems(a) : isnan(v) THEN NaN
    ELSE CHOOSE v \in Elems(a) : \A w \in Elems(a) : Rank(w) <= Rank(v)

Arrays == UNION {[1..n -> Numbers] : n \in 0..MaxLen}

\* numpy.sort(numpy.random.choice(flat, 200)): any sorted draw with
\* replacement from the elements of the (non-empty) array; c[j] is the
\* position of the last occurrence of the j-th smallest element
Ordered(E) ==
    [j \in 1..Cardinality(E) |->
        CHOOSE v \in E : Cardinality({w \in E : Rank(w) < Rank(v)}) = j - 1]

Cuts(m) ==
    {c \in [1..m -> 0..SampleSize] :
        /\ c[m] = SampleSize
        /\ \A j \in 1..(m - 1) : c[j] <= c[j + 1]}

Drawn(es, c) ==
    [i \in 1..SampleSize |->
        es[CHOOSE j \in 1..Len(es) : i <= c[j] /\ \A k \in 1..(j - 1) : i > c[k]]]

Samples(a) == {Drawn(Ordered(Elems(a)), c) : c \in Cuts(Cardinality(Elems(a)))}

Stages == {"display_data_and_metadata", "data_range", "data_sample",
           "display_range", "display_rgba"}

\* display limits as __validate_display_limits leaves them
ValidLimits ==
    {None} \cup
    ({Some(<<lo, hi>>) : lo \in {None, Some(Num(2))}, hi \in {None, Some(Num(2)), Some(Num(4))}}
        \ {Some(<<None, None>>)})

\* display data exists and is not empty, and the snapshot has data
HasData(d, dd) == dd # None /\ Len(dd[1]) > 0 /\ d.xkind # "none"

calculate_display_range(display_limits, data_range, data_sample, xkind, complex_display_type) ==
    IF display_limits # None
    THEN LET lim == display_limits[1]
         IN IF (lim[1] = None \/ lim[2] = None) /\ data_range = None
            THEN [ok |-> FALSE, v |-> None]
            ELSE [ok |-> TRUE,
                  v |-> Some(<<IF lim[1] # None THEN lim[1][1] ELSE data_range[1][1],
                               IF lim[2] # None THEN lim[2][1] ELSE data_range[1][2]>>)]
    ELSE IF xkind = "complex" /\ ~complex_display_type /\ data_sample # None
    THEN [ok |-> TRUE,
          v |-> Some(<<data_sample[1][(Len(data_sample[1]) \div 20) + 1],
                       data_range[1][2]>>)]
    ELSE [ok |-> TRUE, v |-> data_range]

Store(d, f, v) == [d EXCEPT !.val[f] = v]

\* store v as the value of f and return it
StoreRet(d, f, v) == [d |-> Store(d, f, v), v |-> v]

\* return the stored value of f
Stored(d, f) == [d |-> d, v |-> d.val[f]]

\* "if self.__f_dirty: self.__f_dirty = False", and the computation counted
Enter(d, f) == [d EXCEPT !.dirty[f] = FALSE, !.count[f] = @ + 1]

display_data_and_metadata(d) ==
    IF d.dirty["display_data_and_metadata"]
    THEN IF d.xkind # "none"
         THEN StoreRet(Enter(d, "display_data_and_metadata"), "display_data_and_metadata", d.ddata)
         ELSE Stored(Enter(d, "display_data_and_metadata"), "display_data_and_metadata")
    ELSE Stored(d, "display_data_and_metadata")

\* the (min, max) of the display data, (0, 255) for RGB, None without data
RawRange(d, dd) ==
    IF HasData(d, dd)
    THEN IF d.xkind = "rgb"
         THEN Some(<<Num(0), Num(255)>>)
         ELSE Some(<<amin(dd[1]), amax(dd[1])>>)
    ELSE None

\* faulty variant: only NaN bounds are replaced
Sanitize_NanOnly(raw) ==
    IF raw # None /\ (isnan(raw[1][1]) \/ isnan(raw[1][2]))
    THEN Some(<<Num(0), Num(0)>>)
    ELSE raw

\* a range with a NaN or infinite bound becomes (0.0, 0.0)
Sanitize(raw) ==
    IF raw # None /\ (isnan(raw[1][1]) \/ isnan(raw[1][2])
                      \/ isinf(raw[1][1]) \/ isinf(raw[1][2]))
    THEN Some(<<Num(0), Num(0)>>)
    ELSE raw

DataRangeOf(d, r1) == StoreRet(r1.d, "data_range", Sanitize(RawRange(d, r1.v)))

data_range(d) ==
    IF d.dirty["data_range"]
    THEN DataRangeOf(d, display_data_and_metadata(Enter(d, "data_range")))
    ELSE Stored(d, "data_range")

DataSampleOf(d, r1, smp) ==
    StoreRet(r1.d, "data_sample",
             IF HasData(d, r1.v) /\ d.xkind = "complex" THEN Some(smp) ELSE None)

\* smp is the draw numpy.random.choice makes, if it is called
data_sample(d, smp) ==
    IF d.dirty["data_sample"]
    THEN DataSampleOf(d, display_data_and_metadata(Enter(d, "data_sample")), smp)
    ELSE Stored(d, "data_sample")

\* the result of calculate_display_range is stored, or its exception leaves
\* the property
\* faulty variant: a computation that raised leaves the stage dirty
DisplayRangeStore_Retry(d2, c) ==
    IF c.ok
    THEN [d |-> Store(d2, "display_range", c.v), v |-> c.v, ok |-> TRUE]
    ELSE [d |-> [d2 EXCEPT !.dirty["display_range"] = TRUE], v |-> None, ok |-> FALSE]

DisplayRangeStore(d2, c) ==
    IF c.ok
    THEN [d |-> Store(d2, "display_range", c.v), v |-> c.v, ok |-> TRUE]
    ELSE [d |-> d2, v |-> None, ok |-> FALSE]

DisplayRangeCalc(d, r1, r2) ==
    DisplayRangeStore(r2.d, calculate_display_range(d.limits, r1.v, r2.v, d.xkind, d.cdt))

\* the arguments self.data_range and self.data_sample, in this order
DisplayRangeArgs(d, r1, smp) == DisplayRangeCalc(d, r1, data_sample(r1.d, smp))

\* ok is FALSE when calculate_display_range raises
display_range(d, smp) ==
    IF d.dirty["display_range"]
    THEN DisplayRangeArgs(d, data_range(Enter(d, "display_range")), smp)
    ELSE [d |-> d, v |-> d.val["display_range"], ok |-> TRUE]

\* Core.function_display_rgba(display_data_and_metadata, display_range, color_map)
RgbaStore(r3) == StoreRet(r3.d, "display_rgba", Some(<<"rgba", r3.v>>))

RgbaWithRange(r2, smp) ==
    IF r2.v # None
    THEN RgbaStore(display_range(r2.d, smp))
    ELSE Stored(r2.d, "display_rgba")

RgbaWithData(d, r1, smp) ==
    IF r1.v # None /\ d.xkind # "none"
    THEN RgbaWithRange(data_range(r1.d), smp)
    ELSE Stored(r1.d, "display_rgba")

display_rgba(d, smp) ==
    IF d.dirty["display_rgba"]
    THEN RgbaWithData(d, display_data_and_metadata(Enter(d, "display_rgba")), smp)
    ELSE Stored(d, "display_rgba")

DvNew(xkind, ddata, limits, cdt, cb) ==
    [xkind |-> xkind, ddata |-> ddata, limits |-> limits, cdt |-> cdt,
     on_finalize |-> cb,
     dirty |-> [f \in Stages |-> TRUE],
     val |-> [f \in Stages |-> None],
     count |-> [f \in Stages |-> 0],
     finalized |-> FALSE]

\* nobody uses the snapshot
DvIdle ==
    /\ dv_lock = NoThread
    /\ dv_pc = [t \in Callers |-> "idle"]
    /\ dv_field = [t \in Callers |-> "data_range"]
    /\ dv_test = [t \in Callers |-> FALSE]
    /\ dv_out = [t \in Callers |-> [ok |-> TRUE, v |-> None]]
    /\ dv_obs = [f \in Stages |-> {}]
    /\ dv_reads = 0
    /\ finalize_calls = 0

DvUnused ==
    /\ dv = DvNew("none", None, None, FALSE, FALSE)
    /\ DvIdle


\* the body of the property f, as the code runs it under the lock
Returned(r) == [d |-> r.d, v |-> r.v, ok |-> TRUE]

ReadStage(d, f, smp) ==
    CASE f = "display_range" -> display_range(d, smp)
      [] f = "display_data_and_metadata" -> Returned(display_data_and_metadata(d))
      [] f = "data_range" -> Returned(data_range(d))
      [] f = "data_sample" -> Returned(data_sample(d, smp))
      [] f = "display_rgba" -> Returned(display_rgba(d, smp))

\* the draws numpy.random.choice can make in a read of f
Draws(d, f) ==
    IF /\ f \in {"data_sample", "display_range", "display_rgba"}
       /\ d.xkind = "complex" /\ d.ddata # None /\ d.dirty["data_sample"]
    THEN IF Len(d.ddata[1]) > 0 THEN Samples(d.ddata[1]) ELSE {<<>>}
    ELSE {<<>>}

\* faulty variant: the property does not take the lock
DvAcquire_NoLock(t, f) ==
    /\ dv_pc[t] = "idle"
    /\ dv_reads < MaxReads
    /\ dv_reads' = dv_reads + 1
    /\ dv_field' = [dv_field EXCEPT ![t] = f]
    /\ dv_pc' = [dv_pc EXCEPT ![t] = "dv_test"]
    /\ UNCHANGED <<dv, dv_lock, dv_test, dv_out, dv_obs, finalize_calls>>
    /\ UNCHANGED <<procvars, dispvars, mgrvars, propvars, notevars, dipvars, selvars, gcvvars>>

\* "with self.__lock:" at the head of a property
DvAcquire(t, f) ==
    /\ dv_pc[t] = "idle"
    /\ dv_reads < MaxReads
    /\ dv_lock = NoThread
    /\ dv_lock' = t
    /\ dv_reads' = dv_reads + 1
    /\ dv_field' = [dv_field EXCEPT ![t] = f]
    /\ dv_pc' = [dv_pc EXCEPT ![t] = "dv_test"]
    /\ UNCHANGED <<dv, dv_test, dv_out, dv_obs, finalize_calls>>
    /\ UNCHANGED <<procvars, dispvars, mgrvars, propvars, notevars, dipvars, selvars, gcvvars>>

\* "if self.__f_dirty:"
DvTest(t) ==
    /\ dv_pc[t] = "dv_test"
    /\ dv_test' = [dv_test EXCEPT ![t] = dv.dirty[dv_field[t]]]
    /\ dv_pc' = [dv_pc EXCEPT ![t] = "dv_body"]
    /\ UNCHANGED <<dv, dv_lock, dv_field, dv_out, dv_obs, dv_reads, finalize_calls>>
    /\ UNCHANGED <<procvars, dispvars, mgrvars, propvars, notevars, dipvars, selvars, gcvvars>>

\* the property returns r.v to the thread t, or raises
DvLeave(t, f, r) ==
    /\ dv' = r.d
    /\ dv_out' = [dv_out EXCEPT ![t] = [ok |-> r.ok, v |-> r.v]]
    /\ dv_obs' = IF r.ok THEN [dv_obs EXCEPT ![f] = @ \cup {r.v}] ELSE dv_obs

\* the rest of the property: compute and store if the flag was set, return
\* the stored value and leave the with statement; calculate_display_range
\* may raise
DvBody(t) ==
    /\ dv_pc[t] = "dv_body"
    /\ \E smp \in Draws(dv, dv_field[t]) :
          DvLeave(t, dv_field[t],
                  ReadStage([dv EXCEPT !.dirty[dv_field[t]] = dv_test[t]], dv_field[t], smp))
    /\ dv_lock' = NoThread
    /\ dv_pc' = [dv_pc EXCEPT ![t] = "idle"]
    /\ UNCHANGED <<dv_field, dv_test, dv_reads, finalize_calls>>
    /\ UNCHANGED <<procvars, dispvars, mgrvars, propvars, notevars, dipvars, selvars, gcvvars>>

\* finalize: "with self.__lock: self.__finalized = True"
DvFinalize(t) ==
    /\ dv_pc[t] = "idle"
    /\ dv_reads < MaxReads
    /\ dv_lock = NoThread
    /\ dv' = [dv EXCEPT !.finalized = TRUE]
    /\ dv_reads' = dv_reads + 1
    /\ dv_pc' = [dv_pc EXCEPT ![t] = "dv_callback"]
    /\ UNCHANGED <<dv_lock, dv_field, dv_test, dv_out, dv_obs, finalize_calls>>
    /\ UNCHANGED <<procvars, dispvars, mgrvars, propvars, notevars, dipvars, selvars, gcvvars>>

\* finalize: "if callable(self.on_finalize): self.on_finalize(self)"
DvCallback(t) ==
    /\ dv_pc[t] = "dv_callback"
    /\ finalize_calls' = IF dv.on_finalize THEN finalize_calls + 1 ELSE finalize_calls
    /\ dv_pc' = [dv_pc EXCEPT ![t] = "idle"]
    /\ UNCHANGED <<dv, dv_lock, dv_field, dv_test, dv_out, dv_obs, dv_reads>>
    /\ UNCHANGED <<procvars, dispvars, mgrvars, propvars, notevars, dipvars, selvars, gcvvars>>

\* ----------------------------------------------------------------- Display
\* The snapshot slots of one Display.  Snapshots are numbered as they are
\* created; 0 stands for None.
MaxSnapshots == 3

DispNew ==
    /\ disp = [current |-> 0, last |-> 0, is_master |-> TRUE, created |-> {}, data |-> 0]
    /\ disp_op = "init"
    /\ disp_arg = 0
    /\ disp_ret = 0

\* no thread is in get_calculated_display_values
GcvNew ==
    /\ gcv_pc = [t \in Callers |-> "idle"]
    /\ gcv_out = [t \in Callers |-> [kind |-> "none", value |-> 0]]
    /\ with_on_finalize = {}

\* __send_next_calculated_display_values: the current snapshot is discarded
SendNext(d) == [d EXCEPT !.current = 0]

\* faulty variant: new data also discards the last good snapshot
DispUpdateData_DropLast ==
    /\ disp' = [SendNext(disp) EXCEPT !.data = 1 - @, !.last = 0]
    /\ disp_op' = "update_data"
    /\ disp_arg' = 0
    /\ UNCHANGED <<disp_ret, procvars, dvvars, mgrvars, propvars, notevars, dipvars, selvars, gcvvars>>

DispUpdateData ==
    /\ disp' = [SendNext(disp) EXCEPT !.data = 1 - @]
    /\ disp_op' = "update_data"
    /\ disp_arg' = 0
    /\ UNCHANGED <<disp_ret, procvars, dvvars, mgrvars, propvars, notevars, dipvars, selvars, gcvvars>>

\* __property_changed: a property that affects the snapshot (display_limits,
\* an index, the color map) discards the current snapshot, another does not
DispPropertyChanged(affects) ==
    /\ disp' = IF affects THEN SendNext(disp) ELSE disp
    /\ disp_op' = "property_changed"
    /\ disp_arg' = IF affects THEN 1 ELSE 0
    /\ UNCHANGED <<disp_ret, procvars, dvvars, mgrvars, propvars, notevars, dipvars, selvars, gcvvars>>

DispAddListener(send) ==
    /\ disp' = IF send THEN SendNext(disp) ELSE disp
    /\ disp_op' = "add_calculated_display_values_listener"
    /\ disp_arg' = IF send THEN 1 ELSE 0
    /\ UNCHANGED <<disp_ret, procvars, dvvars, mgrvars, propvars, notevars, dipvars, selvars, gcvvars>>

\* faulty variant: a decrement does not clear the flag
DispSetMaster_Sticky(b) ==
    /\ disp' = [disp EXCEPT !.is_master = @ \/ b]
    /\ disp_op' = IF b THEN "increment_display_ref_count" ELSE "decrement_display_ref_count"
    /\ disp_arg' = 0
    /\ UNCHANGED <<disp_ret, procvars, dvvars, mgrvars, propvars, notevars, dipvars, selvars, gcvvars>>

DispSetMaster(b) ==
    /\ disp' = [disp EXCEPT !.is_master = b]
    /\ disp_op' = IF b THEN "increment_display_ref_count" ELSE "decrement_display_ref_count"
    /\ disp_arg' = 0
    /\ UNCHANGED <<disp_ret, procvars, dvvars, mgrvars, propvars, notevars, dipvars, selvars, gcvvars>>

\* the snapshot DisplayValues(...) creates, and the arguments it is given
NewSnapshot == Cardinality(disp.created) + 1
SnapshotArgs == [data |-> disp.data, prop |-> dprop]

\* faulty variant: the master flag is not consulted
DispGet_AnyViewer(immediate) ==
    /\ IF ~immediate \/ disp.last = 0
       THEN IF disp.current = 0
            THEN /\ NewSnapshot <= MaxSnapshots
                 /\ disp' = [disp EXCEPT !.current = NewSnapshot,
                                         !.created = @ \cup {NewSnapshot}]
                 /\ snap' = [snap EXCEPT ![NewSnapshot] = Some(SnapshotArgs)]
                 /\ with_on_finalize' = with_on_finalize \cup {NewSnapshot}
                 /\ disp_ret' = NewSnapshot
            ELSE /\ disp_ret' = disp.current
                 /\ UNCHANGED <<disp, snap, with_on_finalize>>
       ELSE /\ disp_ret' = disp.last
            /\ UNCHANGED <<disp, snap, with_on_finalize>>
    /\ disp_op' = "get_calculated_display_values"
    /\ disp_arg' = IF immediate THEN 1 ELSE 0
    /\ UNCHANGED <<procvars, dvvars, mgrvars, dprop, dprop_op, dprop_arg, notify,
                   notevars, dipvars, selvars, gcv_pc, gcv_out>>

\* get_calculated_display_values(immediate)
DispGet(immediate) ==
    /\ IF ~immediate \/ ~disp.is_master \/ disp.last = 0
       THEN IF disp.current = 0
            THEN /\ NewSnapshot <= MaxSnapshots
                 /\ disp' = [disp EXCEPT !.current = NewSnapshot,
                                         !.created = @ \cup {NewSnapshot}]
                 /\ snap' = [snap EXCEPT ![NewSnapshot] = Some(SnapshotArgs)]
                 /\ with_on_finalize' = with_on_finalize \cup {NewSnapshot}
                 /\ disp_ret' = NewSnapshot
            ELSE /\ disp_ret' = disp.current
                 /\ UNCHANGED <<disp, snap, with_on_finalize>>
       ELSE /\ disp_ret' = disp.last
            /\ UNCHANGED <<disp, snap, with_on_finalize>>
    /\ disp_op' = "get_calculated_display_values"
    /\ disp_arg' = IF immediate THEN 1 ELSE 0
    /\ UNCHANGED <<procvars, dvvars, mgrvars, dprop, dprop_op, dprop_arg, notify,
                   notevars, dipvars, selvars, gcv_pc, gcv_out>>

\* get_calculated_display_values(False) statement by statement, as a thread
\* runs it while other threads use the Display: the method takes no lock and
\* reads self.__current_display_values anew in every statement.
\* "if not self.__current_display_values:"
GcvTest(t) ==
    /\ gcv_pc[t] = "idle"
    /\ gcv_pc' = [gcv_pc EXCEPT ![t] = IF disp.current = 0 THEN "create" ELSE "return"]
    /\ gcv_out' = [gcv_out EXCEPT ![t] = [kind |-> "none", value |-> 0]]
    /\ UNCHANGED <<with_on_finalize, procvars, dvvars, dispvars, mgrvars, propvars,
                   notevars, dipvars, selvars>>

\* "self.__current_display_values = DisplayValues(...)"
GcvCreate(t) ==
    /\ gcv_pc[t] = "create"
    /\ NewSnapshot <= MaxSnapshots
    /\ disp' = [disp EXCEPT !.current = NewSnapshot, !.created = @ \cup {NewSnapshot}]
    /\ snap' = [snap EXCEPT ![NewSnapshot] = Some(SnapshotArgs)]
    /\ gcv_pc' = [gcv_pc EXCEPT ![t] = "on_finalize"]
    /\ UNCHANGED <<gcv_out, with_on_finalize, disp_op, disp_arg, disp_ret, dprop, dprop_op,
                   dprop_arg, notify, procvars, dvvars, mgrvars, notevars, dipvars, selvars>>

\* "self.__current_display_values.on_finalize = finalize": an AttributeError
\* if the attribute is None by now
GcvSetFinalize(t) ==
    /\ gcv_pc[t] = "on_finalize"
    /\ IF disp.current = 0
       THEN /\ gcv_pc' = [gcv_pc EXCEPT ![t] = "idle"]
            /\ gcv_out' = [gcv_out EXCEPT ![t] = [kind |-> "raised", value |-> 0]]
            /\ UNCHANGED with_on_finalize
       ELSE /\ gcv_pc' = [gcv_pc EXCEPT ![t] = "return"]
            /\ with_on_finalize' = with_on_finalize \cup {disp.current}
            /\ UNCHANGED gcv_out
    /\ UNCHANGED <<procvars, dvvars, dispvars, mgrvars, propvars, notevars, dipvars, selvars>>

\* "return self.__current_display_values"
GcvReturn(t) ==
    /\ gcv_pc[t] = "return"
    /\ gcv_pc' = [gcv_pc EXCEPT ![t] = "idle"]
    /\ gcv_out' = [gcv_out EXCEPT ![t] = [kind |-> "returned", value |-> disp.current]]
    /\ UNCHANGED <<with_on_finalize, procvars, dvvars, dispvars, mgrvars, propvars,
                   notevars, dipvars, selvars>>

\* faulty variant: a snapshot older than the last good one is not promoted
DispFinalize_NewerOnly(s) ==
    /\ s \in disp.created
    /\ disp' = [disp EXCEPT !.last = IF s > @ THEN s ELSE @]
    /\ disp_op' = "finalize"
    /\ disp_arg' = s
    /\ UNCHANGED <<disp_ret, procvars, dvvars, mgrvars, propvars, notevars, dipvars, selvars, gcvvars>>

\* a consumer finalizes the snapshot s it was given: DisplayValues.finalize
\* calls on_finalize, the closure "finalize" of get_calculated_display_values
DispFinalize(s) ==
    /\ s \in disp.created
    /\ disp' = [disp EXCEPT !.last = s]
    /\ disp_op' = "finalize"
    /\ disp_arg' = s
    /\ UNCHANGED <<disp_ret, procvars, dvvars, mgrvars, propvars, notevars, dipvars, selvars, gcvvars>>

\* ------------------------------------------------- Display: properties
\* The data descriptor is the part of DataAndMetadata the validators read:
\* whether it is a sequence, the number of collection dimensions, and the
\* dimensional shape, whose last entry is the depth.
MaxDepth == 4
SequenceLength == 2
CollectionShapes == {<<>>, <<2>>, <<1, 2>>}

Descriptor(is_sequence, collection, depth) ==
    [is_sequence |-> is_sequence,
     collection_dimension_count |-> Len(collection),
     dimensional_shape |-> (IF is_sequence THEN <<SequenceLength>> ELSE <<>>)
                              \o collection \o <<depth>>]

Descriptors ==
    {Descriptor(q, c, n) : q \in BOOLEAN, c \in CollectionShapes, n \in 1..MaxDepth}

\* no operation on the Display is under way
Quiet == [at |-> "idle", todo |-> <<>>, ops |-> 0]

PropNew ==
    /\ dprop = [data |-> None,
                sequence_index |-> 0,
                collection_index |-> <<0, 0, 0>>,
                slice_center |-> 0,
                slice_width |-> 1,
                color_map_id |-> 0,
                color_map_data |-> 0]
    /\ dprop_op = "init"
    /\ dprop_arg = 0
    /\ snap = [s \in 1..MaxSnapshots |-> None]
    /\ notify = Quiet

Min(a, b) == IF a <= b THEN a ELSE b
Max(a, b) == IF a >= b THEN a ELSE b

\* int(x) of the half integer x = twice / 2: truncation toward zero
IntHalf(twice) == IF twice >= 0 THEN twice \div 2 ELSE -((-twice) \div 2)

depth_of(d) == d.dimensional_shape[Len(d.dimensional_shape)]
max_sequence_index(d) == d.dimensional_shape[1]
collection_base_index(d) == IF d.is_sequence THEN 1 ELSE 0

\* __validate_sequence_index, outside reading
validate_sequence_index(p, value) ==
    IF p.data # None
    THEN IF p.data[1].is_sequence
         THEN Max(Min(value, max_sequence_index(p.data[1]) - 1), 0)
         ELSE 0
    ELSE 0

\* one component of __validate_collection_index
CollectionComponent(d, value, k) ==
    IF d.collection_dimension_count > k
    THEN Max(Min(value[k + 1], d.dimensional_shape[collection_base_index(d) + k + 1] - 1), 0)
    ELSE 0

\* __validate_collection_index, outside reading
validate_collection_index(p, value) ==
    IF p.data # None
    THEN <<CollectionComponent(p.data[1], value, 0),
           CollectionComponent(p.data[1], value, 1),
           CollectionComponent(p.data[1], value, 2)>>
    ELSE <<0, 0, 0>>

\* mn and mx of __validate_slice_center_for_width
CenterMin(slice_width) == Max(IntHalf(slice_width), 0)

\* faulty variant: the width is not taken into account
CenterMax_DepthOnly(depth, slice_width) == depth - 1

CenterMax(depth, slice_width) == Min(IntHalf(2 * depth - slice_width), depth - 1)

\* __validate_slice_center_for_width, outside reading
validate_slice_center_for_width(p, value, slice_width) ==
    IF p.data # None
    THEN Min(Max(value, CenterMin(slice_width)), CenterMax(depth_of(p.data[1]), slice_width))
    ELSE 0

validate_slice_center(p, value) ==
    validate_slice_center_for_width(p, value, p.slice_width)

\* faulty variant: the width may become 0
WidthMax_NoFloor(depth, slice_center) == Min(slice_center, depth - slice_center) * 2

\* mx of __validate_slice_width
WidthMax(depth, slice_center) == Max(Min(slice_center, depth - slice_center) * 2, 1)

\* faulty variant: a width above the range is halved, not clamped
validate_slice_width_Halved(p, value) ==
    IF p.data # None
    THEN IF value > WidthMax(depth_of(p.data[1]), p.slice_center)
         THEN Max(value \div 2, 1)
         ELSE Max(value, 1)
    ELSE 1

\* __validate_slice_width, outside reading
validate_slice_width(p, value) ==
    IF p.data # None
    THEN Min(Max(value, 1), WidthMax(depth_of(p.data[1]), p.slice_center))
    ELSE 1

\* the property setters: the validated value is stored
set_sequence_index(p, value) ==
    [p EXCEPT !.sequence_index = validate_sequence_index(p, value)]
set_collection_index(p, value) ==
    [p EXCEPT !.collection_index = validate_collection_index(p, value)]
set_slice_center(p, value) ==
    [p EXCEPT !.slice_center = validate_slice_center(p, value)]
set_slice_width(p, value) ==
    [p EXCEPT !.slice_width = validate_slice_width(p, value)]

\* validate_slice_indexes, its three parts
RevalidateSequence(p) ==
    IF validate_sequence_index(p, p.sequence_index) # p.sequence_index
    THEN set_sequence_index(p, validate_sequence_index(p, p.sequence_index))
    ELSE p
RevalidateCollection(p) ==
    IF validate_collection_index(p, p.collection_index) # p.collection_index
    THEN set_collection_index(p, validate_collection_index(p, p.collection_index))
    ELSE p
RecenterAtWidthOne(p) == set_slice_center(set_slice_width(p, 1), p.slice_center)
RevalidateSlice(p) ==
    IF validate_slice_center_for_width(p, p.slice_center, 1) # p.slice_center
    THEN set_slice_width(RecenterAtWidthOne(p), p.slice_width)
    ELSE p
validate_slice_indexes(p) == RevalidateSlice(RevalidateCollection(RevalidateSequence(p)))

\* data_shape of the data, None without data
data_shape(dm) == IF dm = None THEN None ELSE Some(dm[1].dimensional_shape)

\* the values the setters are called with
IndexValues == -1..(MaxDepth + 1)
CollectionValues == {<<-1, 0, 5>>, <<1, 1, 1>>, <<0, 2, 0>>}

\* a property that affects the snapshot is set, its listeners do nothing:
\* the validated value is stored, __property_changed discards the current
\* snapshot
PropertySet(name, value, p) ==
    /\ notify.at = "idle"
    /\ dprop' = p
    /\ dprop_op' = name
    /\ dprop_arg' = value
    /\ disp' = SendNext(disp)
    /\ disp_op' = "property_changed"
    /\ disp_arg' = 1
    /\ UNCHANGED <<disp_ret, snap, notify, procvars, dvvars, mgrvars, notevars, dipvars, selvars, gcvvars>>

SetSequenceIndex(value) ==
    PropertySet("sequence_index", value, set_sequence_index(dprop, value))
SetCollectionIndex(value) ==
    PropertySet("collection_index", value, set_collection_index(dprop, value))
SetSliceCenter(value) ==
    PropertySet("slice_center", value, set_slice_center(dprop, value))
SetSliceWidth(value) ==
    PropertySet("slice_width", value, set_slice_width(dprop, value))

\* update_data(data_and_metadata): the data is replaced, the indexes are
\* validated when the shape differs, the current snapshot is discarded
WithData(p, dm) == [p EXCEPT !.data = dm]
Updated(p, dm) ==
    IF data_shape(p.data) # data_shape(dm)
    THEN validate_slice_indexes(WithData(p, dm))
    ELSE WithData(p, dm)

update_data(dm) ==
    /\ notify.at = "idle"
    /\ dprop' = Updated(dprop, dm)
    /\ dprop_op' = "update_data"
    /\ dprop_arg' = IF data_shape(dprop.data) # data_shape(dm) THEN 1 ELSE 0
    /\ disp' = [SendNext(disp) EXCEPT !.data = 1 - @]
    /\ disp_op' = "update_data"
    /\ disp_arg' = 0
    /\ UNCHANGED <<disp_ret, snap, notify, procvars, dvvars, mgrvars, notevars, dipvars, selvars, gcvvars>>

\* ------------------------------------------- Display: notifications
\* A property set and update_data, step by step: what they change and the
\* events they fire, in the order of the code.  notify.todo holds the steps
\* still to be made, notify.at the event whose listeners are running,
\* notify.ops the number of operations begun.
MaxNotifyOps == 3

Fire(event) == <<"fire", event, 0>>
Discard == <<"discard", "", 0>>

\* the properties for which __property_changed discards the snapshot
SnapshotProperties ==
    {"sequence_index", "collection_index", "slice_center", "slice_width",
     "complex_display_type", "display_limits", "color_map_data"}

\* __send_next_calculated_display_values
SendNextSteps == <<Discard, Fire("calculated_display_values_available")>>

\* __property_changed(name)
PropertyChangedSteps(name) ==
    <<Fire("property_changed"), Fire("display_changed")>>
        \o (IF name \in SnapshotProperties
            THEN <<Fire("display_data_will_change")>> \o SendNextSteps
            ELSE <<>>)

\* the changed callback of the property: __slice_interval_changed for the
\* slice properties, __color_map_id_changed for the color map
ChangedSteps(name) ==
    IF name \in {"slice_center", "slice_width"}
    THEN PropertyChangedSteps(name) \o <<Fire("property_changed")>>
    ELSE IF name = "color_map_id"
         THEN PropertyChangedSteps(name) \o <<<<"lookup", "color_map_data", 0>>>>
                 \o PropertyChangedSteps("color_map_data")
         ELSE PropertyChangedSteps(name)

\* self.<name> = value
SetSteps(name, value) == <<<<"set", name, value>>>> \o ChangedSteps(name)

\* validate_slice_indexes on the properties p
SequenceSteps(p) ==
    IF validate_sequence_index(p, p.sequence_index) # p.sequence_index
    THEN SetSteps("sequence_index", validate_sequence_index(p, p.sequence_index))
    ELSE <<>>
CollectionSteps(p) ==
    IF validate_collection_index(p, p.collection_index) # p.collection_index
    THEN SetSteps("collection_index", validate_collection_index(p, p.collection_index))
    ELSE <<>>
SliceSteps(p) ==
    IF validate_slice_center_for_width(p, p.slice_center, 1) # p.slice_center
    THEN SetSteps("slice_width", 1) \o SetSteps("slice_center", p.slice_center)
            \o SetSteps("slice_width", p.slice_width)
    ELSE <<>>
ValidateSteps(p) == SequenceSteps(p) \o CollectionSteps(p) \o SliceSteps(p)

\* update_data after the data has been replaced
UpdateDataSteps(p, shape_changed) ==
    (IF shape_changed THEN ValidateSteps(p) ELSE <<>>)
        \o SendNextSteps
        \o <<Fire("property_changed"), Fire("property_changed"), Fire("display_changed")>>

\* ColorMaps.color_maps.get(value), None for no id
ColorMap(id) == IF id = 0 THEN 0 ELSE 10 + id

\* the property setter by name
SetProperty(p, name, value) ==
    CASE name = "sequence_index" -> set_sequence_index(p, value)
      [] name = "collection_index" -> set_collection_index(p, value)
      [] name = "slice_center" -> set_slice_center(p, value)
      [] name = "slice_width" -> set_slice_width(p, value)
      [] name = "color_map_id" -> [p EXCEPT !.color_map_id = value]

\* a property is set
BeginSet(name, value) ==
    /\ notify.at = "idle"
    /\ notify.ops < MaxNotifyOps
    /\ notify' = [at |-> "busy", todo |-> SetSteps(name, value), ops |-> notify.ops + 1]
    /\ dprop_op' = name
    /\ dprop_arg' = value
    /\ disp_op' = "property_changed"
    /\ disp_arg' = 1
    /\ UNCHANGED <<dprop, disp, disp_ret, snap, procvars, dvvars, mgrvars, notevars,
                   dipvars, selvars, gcvvars>>

\* update_data(data_and_metadata): the data is replaced
BeginUpdateData(dm) ==
    /\ notify.at = "idle"
    /\ notify.ops < MaxNotifyOps
    /\ dprop' = WithData(dprop, dm)
    /\ disp' = [disp EXCEPT !.data = 1 - @]
    /\ notify' = [at |-> "busy",
                  todo |-> UpdateDataSteps(WithData(dprop, dm),
                                           data_shape(dprop.data) # data_shape(dm)),
                  ops |-> notify.ops + 1]
    /\ dprop_op' = "update_data"
    /\ dprop_arg' = IF data_shape(dprop.data) # data_shape(dm) THEN 1 ELSE 0
    /\ disp_op' = "update_data"
    /\ disp_arg' = 0
    /\ UNCHANGED <<disp_ret, snap, procvars, dvvars, mgrvars, notevars, dipvars, selvars, gcvvars>>

\* the next step of the operation under way
StepMade(item) ==
    /\ dprop' = IF item[1] = "set" THEN SetProperty(dprop, item[2], item[3])
                ELSE IF item[1] = "lookup"
                     THEN [dprop EXCEPT !.color_map_data = ColorMap(dprop.color_map_id)]
                     ELSE dprop
    /\ disp' = IF item[1] = "discard" THEN SendNext(disp) ELSE disp
    /\ notify' = [notify EXCEPT !.at = IF item[1] = "fire" THEN item[2] ELSE "busy",
                                !.todo = Tail(notify.todo)]

Deliver ==
    /\ notify.todo # <<>>
    /\ StepMade(Head(notify.todo))
    /\ UNCHANGED <<dprop_op, dprop_arg, disp_op, disp_arg, disp_ret, snap,
                   procvars, dvvars, mgrvars, notevars, dipvars, selvars, gcvvars>>

\* the operation returns
Done ==
    /\ notify.at # "idle"
    /\ notify.todo = <<>>
    /\ notify' = [notify EXCEPT !.at = "idle"]
    /\ UNCHANGED <<dprop, dprop_op, dprop_arg, snap, dispvars,
                   procvars, dvvars, mgrvars, notevars, dipvars, selvars, gcvvars>>

\* a listener of the event being fired asks for the display values
ListenerGet ==
    /\ notify.at \notin {"idle", "busy"}
    /\ DispGet(FALSE)

\* a consumer asks for the display values between operations
ConsumerGet ==
    /\ notify.at = "idle"
    /\ DispGet(FALSE)

\* -------------------------------------------------------- ThumbnailManager
\* Sources are numbered as they are created; 0 stands for no source.
MaxSources == 3
MaxAcquisitions == 3
Uuids == {1, 2}
Contexts == {1, 2}
SourceIds == 1..MaxSources

MgrNew ==
    /\ mgr = [sources |-> [u \in Uuids |-> 0],
              ref |-> [s \in SourceIds |-> 0],
              uuid |-> [s \in SourceIds |-> 0],
              context |-> [s \in SourceIds |-> 0],
              deleted |-> {},
              acquired |-> [s \in SourceIds |-> 0],
              released |-> [s \in SourceIds |-> 0]]
    /\ mgr_op = "init"
    /\ mgr_ret = 0
    /\ mgr_arg = <<0, 0>>

\* ------------------------------------------------------ DataItemProcessor
\* src/model/DataItemProcessor.py.  get_data runs as one step.  The task it
\* hands to add_shared_task runs later on a thread of the pool, in three
\* steps: load_data_on_thread up to the update of the cache, the call of
\* completion_fn, and the clearing of __in_progress.
MaxGetData == 3

NoTask == [at |-> "none", fn |-> 0, calculated_data |-> NoValue]

DipNew ==
    /\ item_cache = AbsentEntry
    /\ item_data = 0
    /\ in_progress = FALSE
    /\ shared_task = NoTask
    /\ get_data_calls = <<>>
    /\ completed = [c \in 1..MaxGetData |-> <<>>]

\* get_default_data of the class
get_default_data == NoValue

\* the data item changes: data_item_changed marks the entry dirty
data_item_changed(v) ==
    /\ item_data' = v
    /\ item_cache' = CacheSetDirty(item_cache)
    /\ UNCHANGED <<in_progress, shared_task, get_data_calls, completed>>
    /\ UNCHANGED <<procvars, dvvars, dispvars, mgrvars, propvars, notevars, selvars, gcvvars>>

\* the entry is dirty and the data item has data: get_data wants a task
TaskWanted == CacheIsDirty(item_cache) /\ item_data # 0

\* get_data(ui, completion_fn); the call is numbered, and so is its
\* completion_fn
get_data ==
    /\ Len(get_data_calls) < MaxGetData
    /\ IF TaskWanted /\ ~in_progress
       THEN /\ in_progress' = TRUE
            /\ shared_task' = [at |-> "queued", fn |-> Len(get_data_calls) + 1,
                               calculated_data |-> NoValue]
       ELSE UNCHANGED <<in_progress, shared_task>>
    /\ get_data_calls' = Append(get_data_calls,
            [dirty |-> TaskWanted,
             busy |-> in_progress,
             ret |-> IF CacheGet(item_cache) # NoValue
                     THEN CacheGet(item_cache) ELSE get_default_data])
    /\ UNCHANGED <<item_cache, item_data, completed>>
    /\ UNCHANGED <<procvars, dvvars, dispvars, mgrvars, propvars, notevars, selvars, gcvvars>>

\* load_data_on_thread, from the sleep to the update of the cache.  When
\* get_calculated_data raises, the handler prints the traceback and goes on
\* to set_cached_value(..., calculated_data) with calculated_data unbound:
\* the UnboundLocalError ends the task there.
load_data_on_thread(result, raises) ==
    /\ shared_task.at = "queued"
    /\ IF item_data # 0 /\ raises
       THEN /\ shared_task' = [shared_task EXCEPT !.at = "dead"]
            /\ UNCHANGED item_cache
       ELSE IF item_data # 0 /\ result # NoValue
            THEN /\ item_cache' = CacheSet(item_cache, result)
                 /\ shared_task' = [shared_task EXCEPT !.at = "loaded",
                                                       !.calculated_data = result]
            ELSE /\ item_cache' = CacheRemove(item_cache)
                 /\ shared_task' = [shared_task EXCEPT !.at = "loaded",
                                                       !.calculated_data = get_default_data]
    /\ UNCHANGED <<item_data, in_progress, get_data_calls, completed>>
    /\ UNCHANGED <<procvars, dvvars, dispvars, mgrvars, propvars, notevars, selvars, gcvvars>>

\* "if completion_fn: completion_fn(calculated_data)"
completion_fn ==
    /\ shared_task.at = "loaded"
    /\ completed' = [completed EXCEPT ![shared_task.fn] = Append(@, shared_task.calculated_data)]
    /\ shared_task' = [shared_task EXCEPT !.at = "completed"]
    /\ UNCHANGED <<item_cache, item_data, in_progress, get_data_calls>>
    /\ UNCHANGED <<procvars, dvvars, dispvars, mgrvars, propvars, notevars, selvars, gcvvars>>

\* "with self.__mutex: self.__in_progress = False", the end of the task
load_data_done ==
    /\ shared_task.at = "completed"
    /\ in_progress' = FALSE
    /\ shared_task' = NoTask
    /\ UNCHANGED <<item_cache, item_data, get_data_calls, completed>>
    /\ UNCHANGED <<procvars, dvvars, dispvars, mgrvars, propvars, notevars, selvars, gcvvars>>

\* ------------------------------------------------------- GraphicSelection
\* src/nion/swift/model/Display.py.  A selection is its set of indexes and
\* its anchor index, None or an index.
MaxIndex == 3

SelNew ==
    /\ indexes = {}
    /\ anchor_index = None
    /\ sel_op = "init"

Selection == [indexes |-> indexes, anchor_index |-> anchor_index]

\* the selection becomes s in the operation name
SelStep(name, s) ==
    /\ s.indexes \subseteq 0..MaxIndex
    /\ IF s.anchor_index = None THEN TRUE ELSE s.anchor_index[1] <= MaxIndex + 1
    /\ indexes' = s.indexes
    /\ anchor_index' = s.anchor_index
    /\ sel_op' = name
    /\ UNCHANGED <<procvars, dvvars, dispvars, mgrvars, propvars, notevars, dipvars, gcvvars>>

\* the operation name raises and leaves the selection as it is
SelRaise(name) ==
    /\ sel_op' = "raise"
    /\ UNCHANGED <<indexes, anchor_index>>
    /\ UNCHANGED <<procvars, dvvars, dispvars, mgrvars, propvars, notevars, dipvars, gcvvars>>

\* __update_anchor_index on the indexes ix: the anchor goes to every index
\* that is below it, or to the first and then to every lower one when it is
\* None, so that it ends at the least index unless it was lower already
Least(ix) == CHOOSE i \in ix : \A j \in ix : i <= j
update_anchor_index(ix, anchor) ==
    IF ix = {} THEN anchor
    ELSE IF anchor = None THEN Some(Least(ix))
         ELSE Some(Min(anchor[1], Least(ix)))

\* add(index) and remove(index) on the selection s; remove is called with
\* an index of s
Added(s, index) ==
    [indexes |-> s.indexes \cup {index},
     anchor_index |-> IF s.indexes = {} THEN Some(index) ELSE s.anchor_index]
Removed(s, index) ==
    [indexes |-> s.indexes \ {index},
     anchor_index |-> IF s.anchor_index # None /\ s.anchor_index[1] \in s.indexes \ {index}
                      THEN s.anchor_index
                      ELSE update_anchor_index(s.indexes \ {index}, s.anchor_index)]

clear == SelStep("clear", [indexes |-> {}, anchor_index |-> None])

add(index) == SelStep("add", Added(Selection, index))

\* set.remove raises KeyError for an index that is not selected
remove(index) ==
    IF index \in indexes
    THEN SelStep("remove", Removed(Selection, index))
    ELSE SelRaise("remove")

\* add_range(range(start, start + count)), count at most 2
add_range(start, count) ==
    SelStep("add_range",
            IF count = 0 THEN Selection
            ELSE IF count = 1 THEN Added(Selection, start)
                 ELSE Added(Added(Selection, start), start + 1))

set(index) == SelStep("set", [indexes |-> {index}, anchor_index |-> Some(index)])

toggle(index) ==
    SelStep("toggle", IF index \in indexes THEN Removed(Selection, index)
                      ELSE Added(Selection, index))

insert_index(new_index) ==
    SelStep("insert_index",
            [indexes |-> {IF index < new_index THEN index ELSE index + 1 : index \in indexes},
             anchor_index |-> IF anchor_index # None /\ new_index <= anchor_index[1]
                              THEN Some(anchor_index[1] + 1)
                              ELSE anchor_index])

\* the anchor is updated against the indexes as they were, then the indexes
\* are replaced
remove_index(index) ==
    SelStep("remove_index",
            [indexes |-> {IF i > index THEN i - 1 ELSE i : i \in indexes \ {index}},
             anchor_index |-> IF anchor_index = None THEN None
                              ELSE IF index = anchor_index[1]
                                   THEN update_anchor_index(indexes, anchor_index)
                                   ELSE IF index < anchor_index[1]
                                        THEN Some(anchor_index[1] - 1)
                                        ELSE anchor_index])

OthersIdle ==
    /\ DvUnused
    /\ DispNew
    /\ MgrNew
    /\ PropNew
    /\ NoteNew
    /\ DipNew
    /\ SelNew
    /\ GcvNew

\* ReferenceCounted.add_ref: one more reference
add_ref(m, s) == [m EXCEPT !.ref[s] = @ + 1, !.acquired[s] = @ + 1]

\* the closure will_delete of thumbnail_source_for_display
will_delete(m, s) == [m EXCEPT !.sources[m.uuid[s]] = 0]

\* faulty variant: the source stays in the registry
about_to_delete_Keep(m, s) == [m EXCEPT !.deleted = @ \cup {s}]

\* ThumbnailSource.about_to_delete: the processor and the listener are
\* closed, then the manager's hook runs
about_to_delete(m, s) == will_delete([m EXCEPT !.deleted = @ \cup {s}], s)

\* ReferenceCounted.remove_ref: one reference less, and at zero the object
\* is told it is about to be deleted
Decremented(m, s) == [m EXCEPT !.ref[s] = @ - 1, !.released[s] = @ + 1]
remove_ref(m, s) ==
    IF m.ref[s] = 1 THEN about_to_delete(Decremented(m, s), s) ELSE Decremented(m, s)

\* ThumbnailSource(dispatch_task, ui, display), stored under display.uuid
NewSource == Cardinality({s \in SourceIds : mgr.uuid[s] # 0}) + 1
Created(m, s, u, c) ==
    [m EXCEPT !.sources[u] = s, !.uuid[s] = u, !.context[s] = c]

\* faulty variant: the context of the caller is not compared
thumbnail_source_for_display_NoAssert(u, c) ==
    /\ IF mgr.sources[u] = 0
       THEN /\ NewSource <= MaxSources
            /\ mgr' = add_ref(Created(mgr, NewSource, u, c), NewSource)
            /\ mgr_ret' = NewSource
            /\ mgr_op' = "acquire"
       ELSE /\ mgr.acquired[mgr.sources[u]] < MaxAcquisitions
            /\ mgr' = add_ref(mgr, mgr.sources[u])
            /\ mgr_ret' = mgr.sources[u]
            /\ mgr_op' = "acquire"
    /\ mgr_arg' = <<u, c>>
    /\ UNCHANGED <<procvars, dvvars, dispvars, propvars, notevars, dipvars, selvars, gcvvars>>

\* thumbnail_source_for_display(dispatch_task, ui, display): c stands for
\* the pair (dispatch_task, ui), u for display.uuid
thumbnail_source_for_display(u, c) ==
    /\ IF mgr.sources[u] = 0
       THEN /\ NewSource <= MaxSources
            /\ mgr' = add_ref(Created(mgr, NewSource, u, c), NewSource)
            /\ mgr_ret' = NewSource
            /\ mgr_op' = "acquire"
       ELSE IF mgr.context[mgr.sources[u]] # c
            THEN /\ mgr_op' = "AssertionError"
                 /\ mgr_ret' = 0
                 /\ UNCHANGED mgr
            ELSE /\ mgr.acquired[mgr.sources[u]] < MaxAcquisitions
                 /\ mgr' = add_ref(mgr, mgr.sources[u])
                 /\ mgr_ret' = mgr.sources[u]
                 /\ mgr_op' = "acquire"
    /\ mgr_arg' = <<u, c>>
    /\ UNCHANGED <<procvars, dvvars, dispvars, propvars, notevars, dipvars, selvars, gcvvars>>

\* ThumbnailSource.close, by a holder of one of its references
close_source(s) ==
    /\ mgr.ref[s] > 0
    /\ mgr' = remove_ref(mgr, s)
    /\ mgr_op' = "close"
    /\ mgr_ret' = s
    /\ mgr_arg' = <<mgr.uuid[s], mgr.context[s]>>
    /\ UNCHANGED <<procvars, dvvars, dispvars, propvars, notevars, dipvars, selvars, gcvvars>>

\* ------------------------------------------------------------ the system
InitProcessor ==
    /\ cached_value = NoValue
    /\ cached_value_dirty = DirtyNone
    /\ cached_value_time = 0
    /\ is_recomputing = FALSE
    /\ recompute_lock = NoThread
    /\ pending = 0
    /\ pc = [t \in Threads |-> "idle"]
    /\ stack = [t \in Threads |-> <<>>]
    /\ dispatch = [t \in Threads |-> "none"]
    /\ tmp = [t \in Threads |-> NoValue]
    /\ data = [t \in Threads |-> 0]
    /\ calculated_data = [t \in Threads |-> NoValue]
    /\ current_time = [t \in Threads |-> 0]
    /\ wake = [t \in Threads |-> 0]
    /\ exc = [t \in Threads |-> "none"]
    /\ outcome = [t \in Threads |-> "none"]
    /\ ret = [t \in Threads |-> NoValue]
    /\ ops = 0
    /\ op = [t \in Threads |-> "none"]
    /\ calc_count = 0
    /\ calc_raised = [t \in Threads |-> FALSE]
    /\ calc_end = [t \in Threads |-> 0]
    /\ local_is_recomputing = [t \in Threads |-> FALSE]
    /\ last_completion = 0
    /\ mark_calc = [t \in Threads |-> 0]
    /\ dirtied_calc = 0

\* the entry left in the persistent cache by an earlier session
StoredEntries ==
    {AbsentEntry,
     [present |-> TRUE, value |-> Thumb(0), dirty |-> TRUE],
     [present |-> TRUE, value |-> Thumb(0), dirty |-> FALSE]}

AllOps == {"mark_data_dirty", "recompute_if_necessary", "get_data", "get_cached_data"}

AllResults == {NoValue} \cup {Thumb(v) : v \in 1..MaxData}

\* two threads use the processor as they like, with any dispatcher; the
\* hooks may return None or raise
Init ==
    /\ InitProcessor
    /\ OthersIdle
    /\ cache \in StoredEntries
    /\ default_data \in {Zeros, NoValue}
    /\ display_data \in {0, 1}
    /\ now = minimum_time
    /\ conf = [callers |-> Callers, ops |-> AllOps,
               dispatchers |-> {"async", "sync", "none"},
               results |-> AllResults, raises |-> TRUE,
               max_ops |-> MaxOps, max_time |-> MaxTime]

IcSteps(t) ==
    \/ IcTest(t) \/ IcLoadDirty(t) \/ IcStoreDirty(t) \/ IcLoadValue(t) \/ IcStoreValue(t)

MddSteps(t) == MddSetDirty(t) \/ MddAssign(t)

RinSteps(t) ==
    \/ (\E d \in {"async", "sync", "none"} : RinCall(t, d))
    \/ RinTest(t) \/ RinLock(t) \/ RinDispatch(t)

RcSteps(t) == RcTime(t) \/ RcFinally(t)

SleepSteps(t) == RcSleepArg(t) \/ RcSleep(t)

RdSteps(t) ==
    \/ RdAcquire(t) \/ RdTest(t) \/ RdReadData(t) \/ RdCalc(t)
    \/ RdSetCache(t) \/ RdSetValue(t) \/ RdSetDirty(t) \/ RdSetTime(t)
    \/ RdRelease(t) \/ RdNotify(t) \/ RdReacquire(t)

RdRemoveSteps(t) ==
    RdRemove(t) \/ RdClearValue(t) \/ RdClearDirty(t) \/ RdClearTime(t)

Next ==
    \/ \E t \in Threads :
          \/ IcSteps(t) \/ MddSteps(t) \/ RinSteps(t) \/ WorkerStart(t)
          \/ RcSteps(t) \/ SleepSteps(t)
          \/ RdSteps(t) \/ RdDefault(t) \/ RdRemoveSteps(t)
          \/ GetDataCall(t) \/ GetCachedDataCall(t) \/ GcdRead(t)
    \/ Tick
    \/ UpdateData

Spec == Init /\ [][Next]_vars

\* ------------------------------------------------- two concurrent requests
\* Two callers each request a recompute of an entry that the persistent
\* cache holds dirty; nothing else happens and the computation succeeds.
InitTwoCalls ==
    /\ InitProcessor
    /\ OthersIdle
    /\ cache \in {e \in StoredEntries : CacheIsDirty(e)}
    /\ default_data = Zeros
    /\ display_data = 1
    /\ now = minimum_time
    /\ conf = [callers |-> Callers, ops |-> {"recompute_if_necessary"},
               dispatchers |-> {"async", "sync"},
               results |-> AllResults \ {NoValue}, raises |-> FALSE,
               max_ops |-> Cardinality(Callers), max_time |-> minimum_time]

NextTwoCalls ==
    \/ \E t \in Threads :
          \/ IcSteps(t) \/ RinSteps(t) \/ WorkerStart(t)
          \/ RcSteps(t) \/ SleepSteps(t) \/ RdSteps(t)
    \/ Tick

SpecTwoCalls == InitTwoCalls /\ [][NextTwoCalls]_vars

\* ------------------------------------------------------------ the throttle
\* One thread marks the entry dirty, requests recomputes from a thread pool
\* and reads the data with the blocking get_data, while the clock runs.
MaxThrottleOps == 5
MaxThrottleTime == 4

InitThrottle ==
    /\ InitProcessor
    /\ OthersIdle
    /\ cache = [present |-> TRUE, value |-> Thumb(0), dirty |-> TRUE]
    /\ default_data = Zeros
    /\ display_data = 1
    /\ now = minimum_time
    /\ conf = [callers |-> {"c1"},
               ops |-> {"mark_data_dirty", "recompute_if_necessary", "get_data"},
               dispatchers |-> {"async"},
               results |-> AllResults \ {NoValue}, raises |-> FALSE,
               max_ops |-> MaxThrottleOps, max_time |-> MaxThrottleTime]

NextThrottle ==
    \/ \E t \in Threads :
          \/ IcSteps(t) \/ MddSteps(t) \/ RinSteps(t) \/ WorkerStart(t)
          \/ RcSteps(t) \/ SleepSteps(t) \/ RdSteps(t)
          \/ GetDataCall(t) \/ GcdRead(t)
    \/ Tick

SpecThrottle == InitThrottle /\ [][NextThrottle]_vars

\* --------------------------------------------------------- a single thread
\* One thread uses the processor; a dispatcher, if given, runs the task in
\* the calling thread, so every operation runs to its end undisturbed.
MaxSeqOps == 3

InitSeq ==
    /\ InitProcessor
    /\ OthersIdle
    /\ cache \in StoredEntries
    /\ default_data \in {Zeros, NoValue}
    /\ display_data \in {0, 1}
    /\ now = minimum_time
    /\ conf = [callers |-> {"c1"}, ops |-> AllOps,
               dispatchers |-> {"sync", "none"},
               results |-> AllResults, raises |-> TRUE,
               max_ops |-> MaxSeqOps, max_time |-> MaxTime]

NextSeq ==
    \/ \E t \in Threads :
          \/ IcSteps(t) \/ MddSteps(t) \/ RinSteps(t)
          \/ RcSteps(t) \/ SleepSteps(t)
          \/ RdSteps(t) \/ RdDefault(t) \/ RdRemoveSteps(t)
          \/ GetDataCall(t) \/ GetCachedDataCall(t) \/ GcdRead(t)
    \/ Tick
    \/ UpdateData

SpecSeq == InitSeq /\ [][NextSeq]_vars

\* ---------------------------------------------------- data that changes
\* Threads read the thumbnail with the blocking get_data while the display
\* receives new data; whoever changes the data marks the entry dirty, as
\* the listener of thumbnail_changed_event does.
MaxFreshOps == 3
MaxFreshData == 2

\* the display gets a new version of its data and mark_data_dirty is called
DataChanged(t) ==
    /\ CanStart(t, "mark_data_dirty")
    /\ StartOp(t, "mark_data_dirty")
    /\ display_data < MaxFreshData
    /\ display_data' = display_data + 1
    /\ cache' = CacheSetDirty(cache)
    /\ mark_calc' = [mark_calc EXCEPT ![t] = IF Computing # {} THEN calc_count ELSE 0]
    /\ Begin(t, "ic_test", <<"mdd_assign">>)
    /\ UNCHANGED <<cached_value, cached_value_dirty, cached_value_time,
                   is_recomputing, recompute_lock, default_data, now, conf,
                   locals, pending, exc, calc_count, calc_end, last_completion,
                   dirtied_calc>>
    /\ UNCHANGED others

InitFresh ==
    /\ InitProcessor
    /\ OthersIdle
    /\ cache \in {e \in StoredEntries : CacheIsDirty(e)}
    /\ default_data = Zeros
    /\ display_data = 1
    /\ now = minimum_time
    /\ conf = [callers |-> Callers, ops |-> {"mark_data_dirty", "get_data"},
               dispatchers |-> {"none"},
               results |-> {Thumb(v) : v \in 1..MaxFreshData},
               raises |-> FALSE,
               max_ops |-> MaxFreshOps, max_time |-> minimum_time]

NextFresh ==
    \E t \in Threads :
        \/ IcSteps(t) \/ DataChanged(t) \/ MddAssign(t)
        \/ RdSteps(t) \/ GetDataCall(t) \/ GcdRead(t)

SpecFresh == InitFresh /\ [][NextFresh]_vars

\* ------------------------------------------- marks, then one request
\* The callers mark the entry dirty any number of times; when no mark is
\* under way one of them requests a recompute, once.
MaxMarkOps == 4

NoRequestYet == \A u \in Callers : op[u] # "recompute_if_necessary"

InitMarks ==
    /\ InitProcessor
    /\ OthersIdle
    /\ cache \in StoredEntries
    /\ default_data \in {Zeros, NoValue}
    /\ display_data = 1
    /\ now = minimum_time
    /\ conf = [callers |-> Callers,
               ops |-> {"mark_data_dirty", "recompute_if_necessary"},
               dispatchers |-> {"async", "sync"},
               results |-> AllResults, raises |-> TRUE,
               max_ops |-> MaxMarkOps, max_time |-> minimum_time]

NextMarks ==
    \E t \in Threads :
        \/ NoRequestYet /\ MddSetDirty(t)
        \/ /\ NoRequestYet
           /\ \A u \in Callers : pc[u] = "idle"
           /\ \E u \in Callers : op[u] = "mark_data_dirty"
           /\ \E d \in conf.dispatchers : RinCall(t, d)
        \/ IcSteps(t) \/ MddAssign(t)
        \/ RinTest(t) \/ RinLock(t) \/ RinDispatch(t) \/ WorkerStart(t)
        \/ RcSteps(t) \/ RdSteps(t) \/ RdDefault(t) \/ RdRemoveSteps(t)

SpecMarks == InitMarks /\ [][NextMarks]_vars

\* ------------------------------------------------- one snapshot, read
\* Two threads read the properties of one snapshot, and finalize it, in any
\* order; the processor is not used.
ProcessorUnused ==
    /\ InitProcessor
    /\ cache = AbsentEntry
    /\ default_data = Zeros
    /\ display_data = 0
    /\ now = minimum_time
    /\ conf = [callers |-> {}, ops |-> {}, dispatchers |-> {},
               results |-> {}, raises |-> FALSE,
               max_ops |-> 0, max_time |-> minimum_time]

InitDV ==
    /\ ProcessorUnused
    /\ DispNew
    /\ MgrNew
    /\ PropNew
    /\ NoteNew
    /\ DipNew
    /\ SelNew
    /\ GcvNew
    /\ DvIdle
    /\ \E xkind \in {"none", "real", "complex", "rgb"} :
       \E ddata \in IF xkind = "none" THEN {None}
                    ELSE {None, Some(<<>>), Some(<<NaN>>), Some(<<Num(3), Num(1)>>)} :
       \E limits \in {None, Some(<<Some(Num(2)), None>>)}, cdt \in BOOLEAN, cb \in BOOLEAN :
          dv = DvNew(xkind, ddata, limits, cdt, cb)

NextDV ==
    \E t \in Callers :
        \/ \E f \in Stages : DvAcquire(t, f)
        \/ DvTest(t) \/ DvBody(t)
        \/ DvFinalize(t) \/ DvCallback(t)

SpecDV == InitDV /\ [][NextDV]_vars

\* ------------------------- one Display, its operations one after another
InitDisplay ==
    /\ ProcessorUnused
    /\ DvUnused
    /\ DispNew
    /\ MgrNew
    /\ PropNew
    /\ NoteNew
    /\ DipNew
    /\ SelNew
    /\ GcvNew

NextDisplay ==
    \/ DispUpdateData
    \/ \E affects \in BOOLEAN : DispPropertyChanged(affects)
    \/ \E send \in BOOLEAN : DispAddListener(send)
    \/ \E b \in BOOLEAN : DispSetMaster(b)
    \/ \E immediate \in BOOLEAN : DispGet(immediate)
    \/ \E s \in 1..MaxSnapshots : DispFinalize(s)

SpecDisplay == InitDisplay /\ [][NextDisplay]_vars

\* ------------- the ThumbnailManager, sources acquired and closed by holders
InitManager ==
    /\ ProcessorUnused
    /\ DvUnused
    /\ DispNew
    /\ MgrNew
    /\ PropNew
    /\ NoteNew
    /\ DipNew
    /\ SelNew
    /\ GcvNew

NextManager ==
    \/ \E u \in Uuids, c \in Contexts : thumbnail_source_for_display(u, c)
    \/ \E s \in SourceIds : close_source(s)

SpecManager == InitManager /\ [][NextManager]_vars

\* ------------------------------------------ any snapshot, read by one thread
InitDVSeq ==
    /\ ProcessorUnused
    /\ DispNew
    /\ MgrNew
    /\ PropNew
    /\ NoteNew
    /\ DipNew
    /\ SelNew
    /\ GcvNew
    /\ DvIdle
    /\ \E xkind \in {"none", "real", "complex", "rgb"} :
       \E ddata \in IF xkind = "none" THEN {None} ELSE {None} \cup {Some(a) : a \in Arrays} :
       \E limits \in ValidLimits, cdt \in BOOLEAN :
          dv = DvNew(xkind, ddata, limits, cdt, FALSE)

NextDVSeq ==
    \/ \E f \in Stages : DvAcquire("c1", f)
    \/ DvTest("c1")
    \/ DvBody("c1")

SpecDVSeq == InitDVSeq /\ [][NextDVSeq]_vars

\* ------------------------------ a processor with and without a source
\* Threads use a processor that a ThumbnailSource created, or one that
\* stands alone and has no hook.
InitUpdated ==
    /\ InitProcessor
    /\ DvUnused
    /\ DispNew
    /\ MgrNew
    /\ PropNew
    /\ on_thumbnail_updated \in BOOLEAN
    /\ fires = [t \in Threads |-> NoFires]
    /\ DipNew
    /\ SelNew
    /\ GcvNew
    /\ cache \in StoredEntries
    /\ default_data \in {Zeros, NoValue}
    /\ display_data \in {0, 1}
    /\ now = minimum_time
    /\ conf = [callers |-> Callers, ops |-> AllOps,
               dispatchers |-> {"async", "sync", "none"},
               results |-> AllResults, raises |-> TRUE,
               max_ops |-> MaxOps, max_time |-> MaxTime]

SpecUpdated == InitUpdated /\ [][Next]_vars

\* ------------------- one Display, its listeners called back as it changes
NotifyData == {Some(Descriptor(TRUE, <<>>, 2)), Some(Descriptor(FALSE, <<>>, 3))}
NotifyValues == {0, 2}

InitNotify ==
    /\ ProcessorUnused
    /\ DvUnused
    /\ DispNew
    /\ MgrNew
    /\ PropNew
    /\ NoteNew
    /\ DipNew
    /\ SelNew
    /\ GcvNew

NextNotify ==
    \/ \E dm \in NotifyData : BeginUpdateData(dm)
    \/ \E name \in {"sequence_index", "slice_center", "color_map_id"} :
          \E value \in NotifyValues : BeginSet(name, value)
    \/ Deliver
    \/ Done
    \/ ListenerGet
    \/ ConsumerGet

SpecNotify == InitNotify /\ [][NextNotify]_vars

\* --------------------- one Display, its data and index properties being set
InitIndexes ==
    /\ ProcessorUnused
    /\ DvUnused
    /\ DispNew
    /\ MgrNew
    /\ PropNew
    /\ NoteNew
    /\ DipNew
    /\ SelNew
    /\ GcvNew

NextIndexes ==
    \/ \E dm \in {None} \cup {Some(d) : d \in Descriptors} : update_data(dm)
    \/ \E value \in IndexValues : SetSequenceIndex(value)
    \/ \E value \in CollectionValues : SetCollectionIndex(value)
    \/ \E value \in IndexValues : SetSliceCenter(value)
    \/ \E value \in IndexValues : SetSliceWidth(value)

SpecIndexes == InitIndexes /\ [][NextIndexes]_vars

\* --------------------------------------------- the DataItemProcessor alone
\* get_data is called while the data item changes and the task runs; the
\* computation returns a value or None, or raises.
InitItem ==
    /\ ProcessorUnused
    /\ DvUnused
    /\ DispNew
    /\ MgrNew
    /\ PropNew
    /\ NoteNew
    /\ SelNew
    /\ GcvNew
    /\ item_cache \in StoredEntries
    /\ item_data \in {0, 1}
    /\ in_progress = FALSE
    /\ shared_task = NoTask
    /\ get_data_calls = <<>>
    /\ completed = [c \in 1..MaxGetData |-> <<>>]

NextItem ==
    \/ \E v \in {0, 1} : data_item_changed(v)
    \/ get_data
    \/ \E result \in {NoValue, Thumb(1)}, raises \in BOOLEAN : load_data_on_thread(result, raises)
    \/ completion_fn
    \/ load_data_done

SpecItem == InitItem /\ [][NextItem]_vars

\* ------------------------------------------------ the selection alone
InitSelection ==
    /\ ProcessorUnused
    /\ DvUnused
    /\ DispNew
    /\ MgrNew
    /\ PropNew
    /\ NoteNew
    /\ DipNew
    /\ SelNew
    /\ GcvNew

NextSelection ==
    \/ clear
    \/ \E index \in 0..MaxIndex :
          \/ add(index) \/ remove(index) \/ set(index) \/ toggle(index)
          \/ insert_index(index) \/ remove_index(index)
    \/ \E start \in 0..MaxIndex, count \in 0..2 : add_range(start, count)

SpecSelection == InitSelection /\ [][NextSelection]_vars

\* ------------------------------------- the Display used by several threads
\* Threads call get_calculated_display_values(False) while the Display gets
\* new data and its properties are set.
InitRace ==
    /\ ProcessorUnused
    /\ DvUnused
    /\ DispNew
    /\ MgrNew
    /\ PropNew
    /\ NoteNew
    /\ DipNew
    /\ SelNew
    /\ GcvNew

NextRace ==
    \/ \E t \in Callers : GcvTest(t) \/ GcvCreate(t) \/ GcvSetFinalize(t) \/ GcvReturn(t)
    \/ DispUpdateData
    \/ \E affects \in BOOLEAN : DispPropertyChanged(affects)

SpecRace == InitRace /\ [][NextRace]_vars

\* ================================================================ claims
AllIdle == pending = 0 /\ \A t \in Threads : pc[t] = "idle"

\* C1: at most one recompute task of the processor is in flight (dispatched
\* and not yet finished) at any time, so a recompute_if_necessary call made
\* while a task is in flight dispatches nothing and queues no second run.
C1_SingleFlight == InFlight <= 1

\* a call with a dispatcher has returned without dispatching, because it
\* found the flag set, while the task it collided with is still in flight
C1_Witness ==
    \E t \in Callers :
        /\ pc[t] = "idle"
        /\ op[t] = "recompute_if_necessary"
        /\ dispatch[t] # "none"
        /\ local_is_recomputing[t]
        /\ InFlight = 1

\* C2: two recompute_if_necessary calls on the same dirty entry, however
\* they interleave with each other and with the dispatched tasks, execute
\* get_calculated_data exactly once.
C2_ExactlyOnce == (ops = 2 /\ AllIdle) => calc_count = 1

\* C3: a mark_data_dirty that runs while a computation is running, after it
\* has read its data and before it publishes, leaves the entry dirty in the
\* shadow and in the cache once that computation has published.
C3_StaysDirty ==
    \A t \in Threads :
        (pc[t] = "rd_release" /\ data[t] # 0 /\ dirtied_calc = calc_count)
            => (cached_value_dirty = DirtyTrue /\ CacheIsDirty(cache))

\* C4: a dispatched recompute task never starts get_calculated_data earlier
\* than minimum_time after the completion of the previous computation.
C4_Throttle ==
    [][\A t \in Threads :
        (InTask(t) /\ pc[t] = "rd_read_data" /\ pc'[t] = "rd_calc")
            => now >= last_completion + minimum_time]_vars

\* C5: a recompute_if_necessary call with a working dispatcher that finds
\* the entry dirty while no task is in flight dispatches a task (only a
\* dispatched task makes the entry fresh): it is not turned away as if a
\* task were running.
C5_Dispatches ==
    [][\A t \in Threads :
        (pc[t] = "rin_lock" /\ pc'[t] = "rin_dispatch"
            /\ dispatch[t] # "none" /\ InFlight = 0)
            => ~local_is_recomputing'[t]]_vars

\* recompute_data has made all its writes and not yet returned
Published(t) == pc[t] \in {"rd_release", "rd_notify", "rd_reacquire"}

\* C6: when recompute_data runs on a dirty entry with data present and
\* get_calculated_data returns a value, then on return the cache holds that
\* value, the entry is not dirty in the cache nor in the shadow, and the
\* completion time lies between the end of the calculation and the return.
C6_Success ==
    \A t \in Threads :
        (Published(t) /\ data[t] # 0 /\ calculated_data[t] = Thumb(data[t]))
            => /\ cache = [present |-> TRUE, value |-> Thumb(data[t]), dirty |-> FALSE]
               /\ cached_value = Thumb(data[t])
               /\ cached_value_dirty = DirtyFalse
               /\ calc_end[t] <= cached_value_time
               /\ cached_value_time <= now

C6_Witness ==
    \E t \in Threads :
        /\ pc[t] = "rd_reacquire"
        /\ calculated_data[t] = Thumb(1)
        /\ cached_value = Thumb(1)
        /\ cached_value_time > minimum_time

\* C7: when the computation yields nothing (no data, or get_calculated_data
\* returns None) and get_default_data returns a value, then after
\* recompute_data the cache holds the default and the entry is not dirty.
C7_Default ==
    \A t \in Threads :
        (Published(t) /\ default_data # NoValue /\ calculated_data[t] = default_data)
            => /\ cache = [present |-> TRUE, value |-> default_data, dirty |-> FALSE]
               /\ cached_value = default_data
               /\ cached_value_dirty = DirtyFalse

C7_Witness ==
    \E t \in Threads :
        /\ pc[t] = "rd_reacquire"
        /\ data[t] = 0
        /\ calculated_data[t] = Zeros
        /\ CacheGet(cache) = Zeros

\* C8: when the computation yields nothing and get_default_data returns
\* None, then after recompute_data the cache entry is absent, the shadow is
\* uninitialized again (value None, dirty None, time 0), and the next access
\* reads the entry as dirty.
C8_Evict ==
    \A t \in Threads :
        /\ (Published(t) /\ calculated_data[t] = NoValue)
            => /\ ~cache.present
               /\ cached_value = NoValue
               /\ cached_value_dirty = DirtyNone
               /\ cached_value_time = 0
        /\ (pc[t] = "ic_store_dirty" /\ ~cache.present) => tmp[t] = DirtyTrue

\* get_calculated_data and get_default_data both returned None, the entry
\* has been removed and the shadow reset
C8_Witness ==
    \E t \in Threads :
        /\ pc[t] = "rd_reacquire"
        /\ data[t] # 0
        /\ calculated_data[t] = NoValue
        /\ ~cache.present
        /\ cached_value_dirty = DirtyNone

\* C9: when get_calculated_data raises inside a dispatched recompute, the
\* failing step changes neither the cache nor the shadow value, dirty flag
\* and time, it releases the recompute lock, and the task then clears the
\* in-flight flag and ends, so a later recompute_if_necessary can dispatch.
C9_RaiseKeepsEntry ==
    [][\A t \in Threads :
        /\ (InTask(t) /\ pc[t] = "rd_calc" /\ pc'[t] = "rc_finally")
            => /\ UNCHANGED <<cache, cached_value, cached_value_dirty, cached_value_time>>
               /\ recompute_lock' = NoThread
        /\ (pc[t] = "rc_finally" /\ exc[t] = "calc" /\ pc'[t] # "rc_finally")
            => /\ UNCHANGED <<cache, cached_value, cached_value_dirty, cached_value_time>>
               /\ ~is_recomputing'
               /\ pc'[t] = "idle"
               /\ recompute_lock' # t]_vars

\* a task has failed and ended; the entry is dirty and the flag is clear
C9_Witness ==
    \E t \in Threads :
        /\ op[t] \in {"task", "recompute_if_necessary"}
        /\ calc_raised[t]
        /\ pc[t] = "idle"
        /\ cached_value_dirty = DirtyTrue
        /\ ~is_recomputing

C11_ReadOnly ==
    [][\A t \in Callers :
        (op[t] = "get_cached_data" /\ pc[t] # "idle" /\ pc'[t] # pc[t])
            => /\ UNCHANGED <<cache, is_recomputing, recompute_lock, pending,
                             cached_value_time, calc_count>>
               /\ cached_value_dirty' # cached_value_dirty
                    => cached_value_dirty = DirtyNone
               /\ cached_value' # cached_value
                    => cached_value' = CacheGet(cache)
               /\ pc[t] = "gcd_read"
                    => ret'[t] = IF cached_value # NoValue
                                 THEN cached_value ELSE default_data]_vars

\* C12: upon normal return from get_data with data present, the value
\* returned was calculated from the latest data and the cache is not marked
\* dirty.  Stated for the returns at which the entry is indeed not dirty and
\* every change of the data has been followed by a complete mark_data_dirty:
\* the value returned is then the thumbnail of the display's current data.
C12_Freshest ==
    [][\A t \in Callers :
        (/\ op[t] = "get_data" /\ pc[t] = "gcd_read" /\ pc'[t] = "idle"
         /\ display_data # 0
         /\ \A u \in Callers : op[u] = "mark_data_dirty" => pc[u] = "idle"
         /\ ~CacheIsDirty(cache)
         /\ cached_value_dirty = DirtyFalse)
            => ret'[t] = Thumb(display_data)]_vars

\* C13: after one or more mark_data_dirty calls followed by a single
\* recompute_if_necessary with a dispatcher, exactly one computation runs:
\* get_calculated_data never executes a second time, and it has executed
\* once when the request and its task have ended.
C13_OneComputation ==
    /\ calc_count <= 1
    /\ (AllIdle /\ ~NoRequestYet) => calc_count = 1

\* three marks, then the request, and its task has ended
C13_Witness ==
    /\ AllIdle
    /\ ~NoRequestYet
    /\ ops = 4
    /\ calc_count = 1

C15_FinalizeOnce == finalize_calls <= 1

\* C16: the last good snapshot of a Display is replaced only by the finalize
\* callback of a snapshot, and then by the snapshot being finalized, in one
\* assignment that touches nothing else; update_data, property changes,
\* listener registration and get_calculated_display_values leave it alone.
C16_OnlyFinalize ==
    [][disp'.last # disp.last
        => /\ disp_op' = "finalize"
           /\ disp_arg' \in disp.created
           /\ disp' = [disp EXCEPT !.last = disp_arg']]_vars

\* new data arrived and discarded the current snapshot while a last good
\* snapshot, finalized earlier, is still in place
C16_Witness ==
    /\ disp_op = "update_data"
    /\ disp.last # 0
    /\ disp.current = 0
    /\ Cardinality(disp.created) >= 2

\* C17: get_calculated_display_values(immediate) returns the last good
\* snapshot exactly when immediate is true, a last good snapshot exists and
\* the display is master, and then changes nothing; otherwise it returns the
\* current snapshot, which is a newly created one when there was none and
\* the existing one when there was.
C17_Returns ==
    [][disp_op' = "get_calculated_display_values"
        => IF disp_arg' = 1 /\ disp.last # 0 /\ disp.is_master
           THEN disp_ret' = disp.last /\ disp' = disp
           ELSE /\ disp_ret' = disp'.current
                /\ disp_ret' # 0
                /\ IF disp.current # 0
                   THEN disp' = disp
                   ELSE /\ disp_ret' \notin disp.created
                        /\ disp' = [disp EXCEPT !.current = disp_ret',
                                                !.created = @ \cup {disp_ret'}]]_vars

\* an immediate request on a display that is not master got the current
\* snapshot although a different last good snapshot exists
C17_Witness ==
    /\ disp_op = "get_calculated_display_values"
    /\ disp_arg = 1
    /\ ~disp.is_master
    /\ disp.last # 0
    /\ disp_ret = disp.current
    /\ disp_ret # disp.last

\* the registry of the manager m is consistent with the reference counts
Registered(m, s) == m.uuid[s] # 0 /\ m.sources[m.uuid[s]] = s
Consistent(m) ==
    \A s \in SourceIds :
        /\ m.ref[s] = m.acquired[s] - m.released[s]
        /\ Registered(m, s) <=> m.ref[s] > 0
        /\ s \in m.deleted <=> (m.uuid[s] # 0 /\ m.ref[s] = 0)

\* C18: the ThumbnailManager holds, for a display uuid, exactly the one
\* source of that uuid whose reference count is positive: an acquisition for
\* a uuid with a registered source returns that source and adds one to its
\* count, a source is torn down and removed from the registry exactly when
\* its count comes back to zero, and an acquisition for a uuid without a
\* registered source creates a new source with count 1.
C18_OnePerUuid ==
    [][/\ Consistent(mgr')
       /\ mgr_op' = "acquire" /\ mgr' # mgr
            => /\ Registered(mgr', mgr_ret')
               /\ IF mgr.sources[mgr'.uuid[mgr_ret']] # 0
                  THEN /\ mgr_ret' = mgr.sources[mgr'.uuid[mgr_ret']]
                       /\ mgr'.ref[mgr_ret'] = mgr.ref[mgr_ret'] + 1
                  ELSE /\ mgr.uuid[mgr_ret'] = 0
                       /\ mgr'.ref[mgr_ret'] = 1]_vars

\* a source acquired twice was torn down by its second release, and a later
\* acquisition for the same uuid has created another source with count 1
C18_Witness ==
    \E s1, s2 \in SourceIds :
        /\ s1 # s2
        /\ mgr.uuid[s1] = mgr.uuid[s2]
        /\ mgr.uuid[s1] # 0
        /\ mgr.acquired[s1] = 2
        /\ mgr.released[s1] = 2
        /\ s1 \in mgr.deleted
        /\ mgr_op = "acquire"
        /\ mgr_ret = s2
        /\ mgr.ref[s2] = 1

\* the number is finite
Finite(v) == v[1] = "num"

\* C19: data_range never has a NaN or infinite bound; when the display data
\* contains a NaN or an infinity (so that its min or max is one) the range is
\* (0.0, 0.0); RGB data yields (0, 255); absent or empty display data (or no
\* data at all) yields None.  The property returns the stored range.
C19_DataRange ==
    ~dv.dirty["data_range"] =>
        LET r == dv.val["data_range"]
            dd == IF dv.xkind # "none" THEN dv.ddata ELSE None
            has == dd # None /\ dd # Some(<<>>) /\ dv.xkind # "none"
        IN /\ r # None => Finite(r[1][1]) /\ Finite(r[1][2])
           /\ (has /\ dv.xkind # "rgb" /\ \E i \in 1..Len(dd[1]) : ~Finite(dd[1][i]))
                => r = Some(<<Num(0), Num(0)>>)
           /\ (has /\ dv.xkind = "rgb") => r = Some(<<Num(0), Num(255)>>)
           /\ ~has => r = None
           /\ (dv_pc["c1"] = "idle" /\ dv_field["c1"] = "data_range" /\ dv_reads > 0)
                => dv_out["c1"] = [ok |-> TRUE, v |-> r]

\* data_range has been read on data whose maximum is infinite
C19_Witness ==
    /\ dv_pc["c1"] = "idle" /\ dv_field["c1"] = "data_range" /\ dv_reads > 0
    /\ dv.xkind = "real"
    /\ dv.ddata = Some(<<Num(1), Inf>>)
    /\ dv_out["c1"].v = Some(<<Num(0), Num(0)>>)

\* C20: display_range is chosen by priority: (1) with display limits set,
\* each set bound is used and each missing bound is taken from data_range;
\* (2) otherwise, for complex data with no complex display type and a sample,
\* the low bound is the element of the sorted sample at index
\* int(0.05 * size) and the high bound is data_range[1]; (3) otherwise it is
\* data_range.  Stated of the first read of display_range.
C20_Priority ==
    (dv_pc["c1"] = "idle" /\ dv_field["c1"] = "display_range" /\ dv.count["display_range"] = 1
     /\ dv_reads = 1)
        => LET out == dv_out["c1"]
               rng == dv.val["data_range"]
               smp == dv.val["data_sample"]
           IN /\ out.ok
              /\ IF dv.limits # None
                 THEN /\ out.v # None
                      /\ IF dv.limits[1][1] # None
                         THEN out.v[1][1] = dv.limits[1][1][1]
                         ELSE rng # None /\ out.v[1][1] = rng[1][1]
                      /\ IF dv.limits[1][2] # None
                         THEN out.v[1][2] = dv.limits[1][2][1]
                         ELSE rng # None /\ out.v[1][2] = rng[1][2]
                 ELSE IF dv.xkind = "complex" /\ ~dv.cdt /\ smp # None
                 THEN out.v = Some(<<smp[1][(SampleSize \div 20) + 1], rng[1][2]>>)
                 ELSE out.v = rng

\* C26: on a snapshot built with absent raw data every stage reads as None
\* and no read raises, whatever the display limits are.
C26_AbsentData ==
    (dv.ddata = None /\ dv_pc["c1"] = "idle" /\ dv_reads > 0)
        => dv_out["c1"] = [ok |-> TRUE, v |-> None]

\* C27: an acquisition for a display that already has a registered source
\* with a different dispatcher or ui fails with an assertion and leaves the
\* registry and the reference count of that source, and everything else the
\* manager holds, unchanged.
C27_FailsFast ==
    [][(mgr_op' \in {"acquire", "AssertionError"}
            /\ mgr.sources[mgr_arg'[1]] # 0
            /\ mgr.context[mgr.sources[mgr_arg'[1]]] # mgr_arg'[2])
        => /\ mgr_op' = "AssertionError"
           /\ mgr' = mgr]_vars

\* an acquisition with the other context has failed on a source that is
\* held twice, and the source is still registered and held twice
C27_Witness ==
    /\ mgr_op = "AssertionError"
    /\ mgr.sources[mgr_arg[1]] # 0
    /\ mgr.context[mgr.sources[mgr_arg[1]]] # mgr_arg[2]
    /\ mgr.ref[mgr.sources[mgr_arg[1]]] = 2

\* C28: a recompute_data run that found the entry dirty and did not raise
\* has, once it has notified, fired processor_data_updated once and, through
\* the hook of the ThumbnailSource, thumbnail_updated_event once; it notifies
\* after its writes to the cache, while it does not hold the recompute lock;
\* a run fires nothing before that, and a run that finds the entry clean
\* fires nothing at all.
C28_FiresOnce ==
    \A t \in Threads :
        /\ pc[t] = "rd_notify" => recompute_lock # t
        /\ fires[t] = IF pc[t] = "rd_reacquire"
                      THEN [processor |-> 1,
                            event |-> IF on_thumbnail_updated THEN 1 ELSE 0]
                      ELSE NoFires

\* the run of a dispatched task has published a thumbnail and fired the
\* event of the source that owns the processor
C28_Witness ==
    \E t \in Threads :
        /\ InTask(t)
        /\ pc[t] = "rd_reacquire"
        /\ on_thumbnail_updated
        /\ fires[t].event = 1
        /\ cache.present /\ ~cache.dirty

\* the depth of the Display's data
Depth == depth_of(dprop.data[1])

\* C21 as stated: with data present, setting slice_center to v stores v
\* clamped into [ceil(width/2), depth-1-floor(width/2)].
C21_ClampedAsStated ==
    [][(dprop_op' = "slice_center" /\ dprop.data # None)
        => /\ dprop'.slice_center >= (dprop.slice_width + 1) \div 2
           /\ dprop'.slice_center <= Depth - 1 - (dprop.slice_width \div 2)]_vars

\* the largest center for the current width: int(depth - width/2), where
\* int truncates toward zero
CenterHigh ==
    IF dprop.slice_width <= 2 * Depth
    THEN Depth - ((dprop.slice_width + 1) \div 2)
    ELSE Depth - (dprop.slice_width \div 2)

\* C21: with data present, setting slice_center to v stores
\* min(max(v, floor(width/2)), int(depth - width/2)), which is v clamped
\* into [floor(width/2), depth - ceil(width/2)] whenever width <= depth, for
\* every depth and every current slice_width, and changes no other property.
C21_Clamped ==
    [][(dprop_op' = "slice_center" /\ dprop.data # None)
        => /\ dprop' = [dprop EXCEPT !.slice_center = dprop'.slice_center]
           /\ IF dprop_arg' < dprop.slice_width \div 2
              THEN dprop'.slice_center = Min(dprop.slice_width \div 2, CenterHigh)
              ELSE IF dprop_arg' > CenterHigh
                   THEN dprop'.slice_center = CenterHigh
                   ELSE dprop'.slice_center = dprop_arg']_vars

\* with depth 4 and width 2, a center beyond the data was stored as 3
C21_Witness ==
    /\ dprop_op = "slice_center"
    /\ dprop.data # None
    /\ Depth = MaxDepth
    /\ dprop.slice_width = 2
    /\ dprop_arg = MaxDepth + 1
    /\ dprop.slice_center = MaxDepth - 1

\* C30 as stated: with data present, setting slice_width to v stores a
\* width within [1, 2*min(center, depth-center)].
C30_WidthAsStated ==
    [][(dprop_op' = "slice_width" /\ dprop.data # None)
        => /\ dprop'.slice_width >= 1
           /\ dprop'.slice_width <= 2 * Min(dprop.slice_center, Depth - dprop.slice_center)]_vars

\* the largest width for the current center, never below 1
WidthHigh ==
    IF 2 * Min(dprop.slice_center, Depth - dprop.slice_center) >= 1
    THEN 2 * Min(dprop.slice_center, Depth - dprop.slice_center)
    ELSE 1

\* C30: with data present, setting slice_width to v stores v clamped into
\* [1, max(1, 2*min(center, depth-center))] for the current slice_center, so
\* that at center 0 the width stored is 1, and changes no other property.
C30_Width ==
    [][(dprop_op' = "slice_width" /\ dprop.data # None)
        => /\ dprop' = [dprop EXCEPT !.slice_width = dprop'.slice_width]
           /\ IF dprop_arg' < 1
              THEN dprop'.slice_width = 1
              ELSE IF dprop_arg' > WidthHigh
                   THEN dprop'.slice_width = WidthHigh
                   ELSE dprop'.slice_width = dprop_arg']_vars

\* at center 0 of data of depth 4 a width of 3 was asked for and 1 stored
C30_Witness ==
    /\ dprop_op = "slice_width"
    /\ dprop.data # None
    /\ Depth = MaxDepth
    /\ dprop.slice_center = 0
    /\ dprop_arg = 3
    /\ dprop.slice_width = 1

\* the index properties lie within the ranges the validators enforce for the
\* current data
SequenceValid ==
    IF dprop.data[1].is_sequence
    THEN dprop.sequence_index \in 0..(SequenceLength - 1)
    ELSE dprop.sequence_index = 0
CollectionValid ==
    \A k \in 1..3 :
        IF k <= dprop.data[1].collection_dimension_count
        THEN dprop.collection_index[k] \in
                0..(dprop.data[1].dimensional_shape[collection_base_index(dprop.data[1]) + k] - 1)
        ELSE dprop.collection_index[k] = 0
CenterValid == dprop.slice_center \in (dprop.slice_width \div 2)..CenterHigh
WidthValid == dprop.slice_width \in 1..WidthHigh

\* C29: after every update_data that changes the data shape, sequence_index,
\* each component of collection_index, slice_center and slice_width lie
\* within the valid ranges for the new shape, whatever the indexes were.
C29_Revalidated ==
    (dprop_op = "update_data" /\ dprop_arg = 1 /\ dprop.data # None)
        => SequenceValid /\ CollectionValid /\ CenterValid /\ WidthValid

\* the snapshot s was built from the data and the parameters the Display
\* has now
BuiltFromCurrent(s) ==
    /\ snap[s] # None
    /\ snap[s][1].data = disp.data
    /\ snap[s][1].prop.sequence_index = dprop.sequence_index
    /\ snap[s][1].prop.collection_index = dprop.collection_index
    /\ snap[s][1].prop.slice_center = dprop.slice_center
    /\ snap[s][1].prop.slice_width = dprop.slice_width
    /\ snap[s][1].prop.color_map_data = ColorMap(dprop.color_map_id)

\* C22: when a property that affects the snapshot is set, a listener of any
\* of the events fired for the change (property changed, display_changed,
\* display_data_will_change, calculated display values available) that
\* calls get_calculated_display_values(False) obtains a snapshot built with
\* the new value of the property, never one built with the old value.
C22_NoStaleSnapshot ==
    (/\ notify.at \notin {"idle", "busy"}
     /\ dprop_op \in {"sequence_index", "slice_center", "color_map_id"}
     /\ disp_op = "get_calculated_display_values")
        => BuiltFromCurrent(disp_ret)

\* C23: update_data(d) replaces the data and discards the current snapshot
\* before its listeners hear of it: while the calculated display values
\* available event or the display_changed event of an update_data is being
\* fired, and when update_data has returned, the current snapshot is absent
\* or was built from d, so that the next get_calculated_display_values(False)
\* returns a snapshot built from d; snapshots already built keep what they
\* were built from.
C23_Discarded ==
    (/\ dprop_op = "update_data"
     /\ notify.at \in {"idle", "calculated_display_values_available", "display_changed"}
     /\ disp.current # 0)
        => snap[disp.current][1].data = disp.data

\* C24: whenever the shadow is initialized and no processor operation is in
\* the middle of its execution, the shadow's dirty bit and value equal the
\* dirty bit and the value the backing cache holds for the key.
C24_ShadowConsistent ==
    (cached_value_dirty # DirtyNone /\ \A t \in Threads : pc[t] = "idle")
        => /\ (cached_value_dirty = DirtyTrue) <=> CacheIsDirty(cache)
           /\ cached_value = CacheGet(cache)

\* C25: recompute_if_necessary called without a dispatcher is a no-op: no
\* step of it runs a computation or changes the cache, the dirty bit of the
\* entry or the in-flight flag.
C25_NoOp ==
    [][\A t \in Threads :
        (op[t] = "recompute_if_necessary" /\ dispatch[t] = "none"
            /\ pc[t] # "idle" /\ pc'[t] # pc[t])
            => /\ cache' = cache
               /\ calc_count' = calc_count
               /\ is_recomputing' = is_recomputing]_vars

\* integers in and far out of the range of every index
AnyInteger == IndexValues \cup {-(10 * MaxDepth), 10 * MaxDepth}

\* C31: whatever the data and the stored indexes are, each index validator
\* (sequence index, collection index, slice center, slice width) returns an
\* integer (a triple of integers) for every integer input, however far out
\* of range and also when slice_width exceeds the depth, and validating the
\* value it returned returns that value unchanged.
C31_Idempotent ==
    /\ \A v \in AnyInteger :
        /\ validate_sequence_index(dprop, v) \in Int
        /\ validate_sequence_index(dprop, validate_sequence_index(dprop, v))
              = validate_sequence_index(dprop, v)
        /\ validate_slice_center(dprop, v) \in Int
        /\ validate_slice_center(dprop, validate_slice_center(dprop, v))
              = validate_slice_center(dprop, v)
        /\ validate_slice_width(dprop, v) \in Int
        /\ validate_slice_width(dprop, validate_slice_width(dprop, v))
              = validate_slice_width(dprop, v)
    /\ \A a, b, c \in {-(10 * MaxDepth), 0, 1, 10 * MaxDepth} :
        /\ validate_collection_index(dprop, <<a, b, c>>) \in Int \X Int \X Int
        /\ validate_collection_index(dprop, validate_collection_index(dprop, <<a, b, c>>))
              = validate_collection_index(dprop, <<a, b, c>>)

\* the stored width exceeds the depth of the data, and a center beyond the
\* data has just been validated and stored
C31_Witness ==
    /\ dprop.data # None
    /\ dprop.slice_width > Depth
    /\ dprop_op = "slice_center"
    /\ dprop_arg = MaxDepth + 1
    /\ dprop.slice_center = validate_slice_center(dprop, MaxDepth + 1)

\* the thread is in the throttle delay of a recompute task
Sleeping(t) == pc[t] \in {"rc_sleep_arg", "rc_sleep"}

C33_MasterToggle ==
    [][/\ disp_op = "init" => disp.is_master
       /\ IF disp_op' = "increment_display_ref_count"
          THEN disp'.is_master
          ELSE IF disp_op' = "decrement_display_ref_count"
               THEN ~disp'.is_master
               ELSE disp'.is_master = disp.is_master]_vars

\* a decrement has cleared the flag of a Display whose snapshots are in use
C33_Witness ==
    /\ disp_op = "decrement_display_ref_count"
    /\ ~disp.is_master
    /\ disp.last # 0

\* C34: every get_data call that finds the entry dirty while the data item
\* has data returns at once with the cached or the default value, and its
\* completion_fn is invoked exactly once, with the computed or the default
\* data, by the time the background task has completed and none is under
\* way, also when a computation of the processor was already in progress
\* at the time of the call.
C34_CompletionOnce ==
    shared_task = NoTask =>
        \A c \in 1..Len(get_data_calls) :
            get_data_calls[c].dirty =>
                /\ Len(completed[c]) = 1
                /\ completed[c][1] \in {Thumb(1), get_default_data}

\* C35: when get_calculated_data has raised in the background task and the
\* task has ended, the entry is dirty and the in-progress flag is clear, so
\* that the next get_data on the dirty entry schedules a new computation.
C35_NotStuck ==
    shared_task.at = "dead" => CacheIsDirty(item_cache) /\ ~in_progress

\* C39: after any sequence of GraphicSelection operations, anchor_index is
\* None when the selection is empty and is otherwise one of the indexes.
C39_AnchorValid ==
    IF indexes = {}
    THEN anchor_index = None
    ELSE anchor_index # None /\ anchor_index[1] \in indexes

\* C36 as stated: the last good snapshot never regresses; the finalize of a
\* snapshot older than the last good one (snapshots are numbered as they
\* are created) does not replace it.
C36_NoRegress ==
    [][(disp_op' = "finalize" /\ disp_arg' < disp.last) => disp'.last = disp.last]_vars

\* C36: the last good snapshot is the snapshot finalized most recently:
\* every finalize of a snapshot of the Display makes that snapshot the last
\* good one, also when it is older than the one promoted before and was
\* discarded long ago, and no other operation changes the last good
\* snapshot.
C36_LastFinalized ==
    [][IF disp_op' = "finalize"
       THEN disp'.last = disp_arg'
       ELSE disp'.last = disp.last]_vars

\* the first snapshot has been finalized and is the last good one, while
\* the Display has built two newer snapshots
C36_Witness ==
    /\ disp_op = "finalize"
    /\ disp_arg = 1
    /\ disp.last = 1
    /\ disp.created = 1..MaxSnapshots
    /\ disp.current = MaxSnapshots

\* C37: get_calculated_display_values(False) returns a snapshot, never None,
\* with its on_finalize callback set, and does not raise, however its
\* statements interleave with update_data, with property changes and with
\* the calls of other threads.
C37_ReturnsSnapshot ==
    \A t \in Callers :
        (gcv_pc[t] = "idle" /\ gcv_out[t].kind # "none")
            => /\ gcv_out[t].kind = "returned"
               /\ gcv_out[t].value # 0
               /\ gcv_out[t].value \in with_on_finalize

\* the stored slice_center and slice_width are fixed points of their
\* validators, each for the stored value of the other
CenterFixed == validate_slice_center(dprop, dprop.slice_center) = dprop.slice_center
WidthFixed == validate_slice_width(dprop, dprop.slice_width) = dprop.slice_width

\* C38: with data present, a slice_center or slice_width setter call made
\* when the stored pair is jointly valid (as it is when the properties have
\* their initial values 0 and 1) leaves it jointly valid: slice_center is a
\* fixed point of the center validator for the stored width and slice_width
\* a fixed point of the width validator for the stored center.
C38_JointlyValid ==
    [][(/\ dprop.data # None
        /\ dprop'.data = dprop.data
        /\ CenterFixed /\ WidthFixed
        /\ dprop_op' \in {"slice_center", "slice_width"})
        => (CenterFixed /\ WidthFixed)']_vars

\* C40: a read of a stage that raises leaves the stage's dirty flag cleared
\* and its value absent; a stage whose flag is cleared keeps its value and
\* its flag for the life of the snapshot; and a read of a stage whose flag
\* is cleared returns the stored value without raising and without running
\* any computation.  So the exception of a stage reaches the one reader
\* whose read ran the computation, and every later read returns absent.
C40_RaisesOnce ==
    [][/\ \A f \in Stages :
            ~dv.dirty[f] => ~dv'.dirty[f] /\ dv'.val[f] = dv.val[f]
       /\ \A t \in Callers :
            (dv_pc[t] = "dv_body" /\ dv_pc'[t] = "idle") =>
                /\ ~dv_out'[t].ok =>
                      ~dv'.dirty[dv_field[t]] /\ dv'.val[dv_field[t]] = None
                /\ ~dv.dirty[dv_field[t]] =>
                      /\ dv_out'[t] = [ok |-> TRUE, v |-> dv.val[dv_field[t]]]
                      /\ dv' = dv]_vars

\* the read of display_range by one thread has raised, and the read of
\* display_range by the other thread has returned None; the computation ran
\* once
C40_Witness ==
    /\ \A t \in Callers : dv_pc[t] = "idle" /\ dv_field[t] = "display_range"
    /\ dv_out["c1"] = [ok |-> FALSE, v |-> None]
    /\ dv_out["c2"] = [ok |-> TRUE, v |-> None]
    /\ dv.count["display_range"] = 1

====
